---- MODULE Spec2Model ----
(***************************************************************************)
(* A model of the requirements-to-documents web application:               *)
(*   src/src/app.py                     the Flask routes and the session   *)
(*   src/src/api_integration.py         the integration functions app.py   *)
(*                                      imports                            *)
(*   src/src/api_integration_simple.py  the second implementation of the   *)
(*                                      generation functions               *)
(*                                                                         *)
(* Text is a sequence of atoms.  User text, messages and every literal a   *)
(* property looks into are spelled character by character; the long fixed  *)
(* instruction blocks of the prompt templates are one atom each.           *)
(***************************************************************************)
EXTENDS Naturals, Integers, Sequences, FiniteSets, TLC

VARIABLES
    cookie,     \* the client's session cookie: user id and conversation log
    inflight,   \* the /combined requests received and not yet answered
    served,     \* how many requests have been answered
    call,       \* the operation last carried out, with its inputs
    ret,        \* what that operation returned to its caller
    trace       \* the calls that operation made to the collaborators

vars == <<cookie, inflight, served, call, ret, trace>>

(***************************************************************************)
(* Bounds of the model.                                                    *)
(***************************************************************************)
MaxNameLen == 2     \* longest table-name candidate
MaxRows == 6        \* rows of the populated table
MaxRequests == 2    \* answered requests of one behaviour

None == "None"

(***************************************************************************)
(* Text primitives.                                                        *)
(***************************************************************************)
Whitespace == {" ", "\n", "\t"}

Min(a, b) == IF a <= b THEN a ELSE b

Contains(s, p) == \E i \in 1..(Len(s) - Len(p) + 1) : SubSeq(s, i, i + Len(p) - 1) = p

\* F applied to the value of v (v is evaluated once, whatever F does with it)
Bind(v, F(_)) == CHOOSE r \in {F(x) : x \in {v}} : TRUE

\* str.strip(): leading and trailing whitespace removed
Strip(s) ==
    LET inked == {i \in 1..Len(s) : s[i] \notin Whitespace}
    IN  IF inked = {} THEN <<>>
        ELSE SubSeq(s, CHOOSE i \in inked : \A j \in inked : i <= j,
                       CHOOSE i \in inked : \A j \in inked : i >= j)

\* len(str.split()): the number of maximal runs of non-whitespace
WordCount(s) ==
    Cardinality({i \in 1..Len(s) :
        s[i] \notin Whitespace /\ (i = 1 \/ s[i - 1] \in Whitespace)})

\* s * n
Repeat(s, n) == [i \in 1..(n * Len(s)) |-> s[((i - 1) % Len(s)) + 1]]

RECURSIVE Concat(_)
Concat(ss) == IF ss = <<>> THEN <<>> ELSE Head(ss) \o Concat(Tail(ss))

\* str(int) for the small numbers the model prints
IntStr(n) ==
    IF n < 10 THEN <<<<"0","1","2","3","4","5","6","7","8","9">>[n + 1]>>
    ELSE <<"1", <<"0","1","2","3","4","5","6","7","8","9">>[(n - 10) + 1]>>

\* all sequences over S of length 1..n
RECURSIVE SeqsUpTo(_, _)
SeqsUpTo(S, n) ==
    IF n = 0 THEN {}
    ELSE LET shorter == SeqsUpTo(S, n - 1)
         IN  {<<c>> : c \in S} \cup shorter \cup {s \o <<c>> : s \in shorter, c \in S}

(***************************************************************************)
(* Characters.  NonAsciiLetter stands for one letter outside ASCII (such   *)
(* as U+00E9), which Python's \w matches in a str pattern.                 *)
(***************************************************************************)
NonAsciiLetter == "U+00E9"

AsciiLetters ==
    {"a","b","c","d","e","f","g","h","i","j","k","l","m",
     "n","o","p","q","r","s","t","u","v","w","x","y","z",
     "A","B","C","D","E","F","G","H","I","J","K","L","M",
     "N","O","P","Q","R","S","T","U","V","W","X","Y","Z"}

Digits == {"0","1","2","3","4","5","6","7","8","9"}

AsciiWordChars == AsciiLetters \cup Digits \cup {"_"}

\* \w of a Python 3 str pattern: Unicode word characters
WordChars == AsciiWordChars \cup {NonAsciiLetter}

(***************************************************************************)
(* The database collaborator (pypyodbc over Azure SQL).                    *)
(*   mode "noconfig"  a DB_* environment variable is missing               *)
(*   mode "connfail"  odbc.connect raises                                  *)
(*   mode "queryfail" the connection opens, every execute raises           *)
(*   mode "up"        the connection opens and queries run                 *)
(***************************************************************************)
DbModes == {"noconfig", "connfail", "queryfail", "up"}

PopulatedTable == <<"t">>
EmptyTable == <<"t", "1">>

\* the dbo tables and their rows (a row is its number)
DbTables == {PopulatedTable, EmptyTable}

TableRows(t) == IF t = PopulatedTable THEN [i \in 1..MaxRows |-> i] ELSE <<>>

\* one collaborator call in the trace
Event(op, tag, text) == [op |-> op, tag |-> tag, text |-> text]

\* connect_to_db(): an open connection, or None
connect_to_db(db) == IF db \in {"noconfig", "connfail"} THEN None ELSE "conn"

connect_trace(db) ==
    IF db = "noconfig" THEN <<>> ELSE <<Event("connect", "", <<>>)>>

\* re.match(r'^\w+$', table_name): one or more word characters, then the end
\* of the string or a newline that ends the string
re_match_word(table_name) ==
    LET body == IF table_name # <<>> /\ table_name[Len(table_name)] = "\n"
                THEN SubSeq(table_name, 1, Len(table_name) - 1)
                ELSE table_name
    IN  /\ body # <<>>
        /\ \A i \in 1..Len(body) : body[i] \in WordChars

\* cursor.execute(f"SELECT TOP {limit} * FROM {table_name};") and fetchall():
\* the server reads the identifier without the white space around it, raises
\* for an object it does not have and returns the first `limit` rows
select_top_AllRows(db, table_name, limit) ==
    LET t == Strip(table_name)
    IN  IF db # "up" \/ t \notin DbTables
        THEN [raised |-> TRUE, rows |-> <<>>]
        ELSE [raised |-> FALSE, rows |-> TableRows(t)]

select_top(db, table_name, limit) ==
    LET t == Strip(table_name)
    IN  IF db # "up" \/ t \notin DbTables
        THEN [raised |-> TRUE, rows |-> <<>>]
        ELSE [raised |-> FALSE,
              rows |-> SubSeq(TableRows(t), 1, Min(limit, Len(TableRows(t))))]

select_query(table_name, limit) ==
    <<"SELECT TOP ">> \o IntStr(limit) \o <<" * FROM ">> \o table_name \o <<";">>

\* fetch_specific_table(table_name, limit): [raised, value, trace]
fetch_specific_table(db, table_name, limit) ==
    IF connect_to_db(db) = None
    THEN [raised |-> FALSE, value |-> <<>>, trace |-> connect_trace(db)]
    ELSE IF ~re_match_word(table_name)
    THEN \* ValueError("Invalid table name format."), caught by the except below
         [raised |-> FALSE, value |-> <<>>, trace |-> connect_trace(db)]
    ELSE LET r == select_top(db, table_name, limit)
             ex == Event("execute", "select", select_query(table_name, limit))
         IN  IF r.raised
             THEN [raised |-> FALSE, value |-> <<>>,
                   trace |-> connect_trace(db) \o <<ex>>]
             ELSE [raised |-> FALSE, value |-> r.rows,
                   trace |-> connect_trace(db) \o <<ex, Event("close", "", <<>>)>>]

DefaultLimit == 5



\* list_all_tables(): [value, trace]; its connection is its own
DbTableList == <<PopulatedTable, EmptyTable>>

list_all_tables(db) ==
    IF connect_to_db(db) = None
    THEN [value |-> <<>>, trace |-> connect_trace(db)]
    ELSE LET ex == Event("execute", "tables", <<"SELECT TABLE_NAME FROM INFORMATION_SCHEMA.TABLES WHERE TABLE_SCHEMA = 'dbo';">>)
         IN  IF db # "up"
             THEN [value |-> <<>>, trace |-> connect_trace(db) \o <<ex>>]
             ELSE [value |-> DbTableList,
                   trace |-> connect_trace(db) \o <<ex, Event("close", "", <<>>)>>]

\* fetch_table_structure(): [value, trace]; value is the sequence of the tables
\* whose columns were read (empty for {})
fetch_table_structure(db) ==
    IF connect_to_db(db) = None
    THEN [value |-> <<>>, trace |-> connect_trace(db)]
    ELSE LET tables == list_all_tables(db)
             columns == [i \in 1..Len(tables.value) |->
                            Event("execute", "columns", tables.value[i])]
         IN  [value |-> tables.value,
              trace |-> connect_trace(db) \o tables.trace \o columns
                        \o <<Event("close", "", <<>>)>>]

\* str(table_structure): the dict as the f-string prints it
RECURSIVE ReprItems(_)
ReprItems(tables) ==
    IF tables = <<>> THEN <<>>
    ELSE <<"'">> \o Head(tables) \o <<"': {'id': 'int'}">>
         \o (IF Len(tables) > 1 THEN <<",", " ">> ELSE <<>>) \o ReprItems(Tail(tables))

ReprDict(tables) == <<"{">> \o ReprItems(tables) \o <<"}">>

(***************************************************************************)
(* detect_table_name: re.search(r'\btable\s+([a-zA-Z0-9_]+)', IGNORECASE). *)
(***************************************************************************)
Lower(c) ==
    LET up == <<"A","B","C","D","E","F","G","H","I","J","K","L","M",
                "N","O","P","Q","R","S","T","U","V","W","X","Y","Z">>
        lo == <<"a","b","c","d","e","f","g","h","i","j","k","l","m",
                "n","o","p","q","r","s","t","u","v","w","x","y","z">>
    IN  IF \E i \in 1..26 : up[i] = c
        THEN lo[CHOOSE i \in 1..26 : up[i] = c]
        ELSE c

LowerText(s) == [i \in 1..Len(s) |-> Lower(s[i])]

\* the longest run of characters of S that starts at position i of s
RECURSIVE RunFrom(_, _, _)
RunFrom(s, i, S) ==
    IF i <= Len(s) /\ s[i] \in S THEN <<s[i]>> \o RunFrom(s, i + 1, S) ELSE <<>>

\* the identifier a match of the pattern at position i captures, <<>> for none
TableMatchAt(s, i) ==
    IF /\ i + 4 <= Len(s)
       /\ LowerText(SubSeq(s, i, i + 4)) = <<"t","a","b","l","e">>
       /\ (i = 1 \/ s[i - 1] \notin WordChars)
    THEN LET ws == RunFrom(s, i + 5, Whitespace)
         IN  IF ws = <<>> THEN <<>>
             ELSE RunFrom(s, i + 5 + Len(ws), AsciiWordChars)
    ELSE <<>>

detect_table_name(user_text) ==
    LET hits == {i \in 1..Len(user_text) : TableMatchAt(user_text, i) # <<>>}
    IN  IF hits = {} THEN <<>>
        ELSE TableMatchAt(user_text, CHOOSE i \in hits : \A j \in hits : i <= j)

(***************************************************************************)
(* The NLP collaborator (spaCy).  A doc is what nlp(text) returned:        *)
(*   ok      FALSE when the pipeline raised                                *)
(*   chunks  the texts of doc.noun_chunks                                  *)
(*   ents    the named entities, [text, label]                             *)
(*   sents   the texts of doc.sents                                        *)
(***************************************************************************)
NlpError == <<"n","l","p">>

\* where the whitespace-separated words of s start
WordStarts(s) ==
    {k \in 1..Len(s) : s[k] \notin Whitespace /\ (k = 1 \/ s[k - 1] \in Whitespace)}

\* the word of s that starts at i
WordAt(s, i) ==
    SubSeq(s, i, CHOOSE j \in i..Len(s) :
                    /\ \A k \in i..j : s[k] \notin Whitespace
                    /\ (j = Len(s) \/ s[j + 1] \in Whitespace))

\* the whitespace-separated words of s, as a set
Words(s) == {WordAt(s, i) : i \in WordStarts(s)}

\* all the orders a set can be iterated in
RECURSIVE Perms(_)
Perms(S) ==
    IF S = {} THEN {<<>>}
    ELSE UNION {{<<x>> \o p : p \in Perms(S \ {x})} : x \in S}

\* the characters in code-point order
CodeOrder ==
    <<"\t", "\n", " ", "%", "'", "(", ")", ",", ".", "/", "0","1","2","3","4","5","6","7","8","9",
      ":", ";", "=", "A","B","C","D","E","F","G","H","I","J","K","L","M",
      "N","O","P","Q","R","S","T","U","V","W","X","Y","Z", "[", "]", "_",
      "a","b","c","d","e","f","g","h","i","j","k","l","m",
      "n","o","p","q","r","s","t","u","v","w","x","y","z", "{", "}", NonAsciiLetter>>

CharCode(c) == CHOOSE i \in 1..Len(CodeOrder) : CodeOrder[i] = c

\* a < b as Python compares str
RECURSIVE StrLess(_, _)
StrLess(a, b) ==
    IF b = <<>> THEN FALSE
    ELSE IF a = <<>> THEN TRUE
    ELSE IF Head(a) = Head(b) THEN StrLess(Tail(a), Tail(b))
    ELSE CharCode(Head(a)) < CharCode(Head(b))

\* sorted(S) for a set of str
Sorted(S) ==
    CHOOSE p \in Perms(S) : \A i \in 1..(Len(p) - 1) : StrLess(p[i], p[i + 1])

\* sep.join(parts)
RECURSIVE Join(_, _)
Join(sep, parts) ==
    IF parts = <<>> THEN <<>>
    ELSE IF Len(parts) = 1 THEN Head(parts)
    ELSE Head(parts) \o sep \o Join(sep, Tail(parts))

(***************************************************************************)
(* enhance_user_requirements.  `order` is the order in which the set       *)
(* key_phrases is iterated (api_integration.py joins the set as it is).    *)
(***************************************************************************)
BriefWordLimit == 20

KeyConceptsLabel == <<"\n","K","e","y"," ","c","o","n","c","e","p","t","s",":"," ">>

BrevityNote ==
    <<"\n","[","N","o","t","e",":"," ","T","h","e"," ","i","n","p","u","t"," ","i","s"," ",
      "b","r","i","e","f",";"," ","m","o","r","e"," ","d","e","t","a","i","l"," ","m","a","y"," ",
      "y","i","e","l","d"," ","a"," ","r","i","c","h","e","r"," ","d","e","s","i","g","n",".","]">>

\* key_phrases: the stripped chunk texts and the stripped entity texts
key_phrases(doc) ==
    {Strip(c) : c \in doc.chunks} \cup {Strip(e.text) : e \in doc.ents}

\* the note also for a text of exactly twenty words
enhance_user_requirements_BriefAtLimit(user_text, doc, order) ==
    IF ~doc.ok THEN [raised |-> TRUE, value |-> NlpError]
    ELSE [raised |-> FALSE,
          value |-> Strip(user_text)
                    \o (IF key_phrases(doc) # {}
                        THEN KeyConceptsLabel \o Join(<<",", " ">>, order) ELSE <<>>)
                    \o (IF WordCount(user_text) <= BriefWordLimit
                        THEN BrevityNote ELSE <<>>)]

enhance_user_requirements_NoStrip(user_text, doc, order) ==
    IF ~doc.ok THEN [raised |-> TRUE, value |-> NlpError]
    ELSE [raised |-> FALSE,
          value |-> user_text
                    \o (IF key_phrases(doc) # {}
                        THEN KeyConceptsLabel \o Join(<<",", " ">>, order) ELSE <<>>)
                    \o (IF WordCount(user_text) < BriefWordLimit
                        THEN BrevityNote ELSE <<>>)]

\* [raised, value]: the enhanced text, or the collaborator's error
enhance_user_requirements(user_text, doc, order) ==
    IF ~doc.ok THEN [raised |-> TRUE, value |-> NlpError]
    ELSE [raised |-> FALSE,
          value |-> Strip(user_text)
                    \o (IF key_phrases(doc) # {}
                        THEN KeyConceptsLabel \o Join(<<",", " ">>, order) ELSE <<>>)
                    \o (IF WordCount(user_text) < BriefWordLimit
                        THEN BrevityNote ELSE <<>>)]

\* api_integration_simple.py: the same, the phrases joined in sorted order
Simple_enhance_user_requirements(user_text, doc) ==
    IF ~doc.ok THEN [raised |-> TRUE, value |-> NlpError]
    ELSE [raised |-> FALSE,
          value |-> Strip(user_text)
                    \o (IF key_phrases(doc) # {}
                        THEN KeyConceptsLabel
                             \o Join(<<",", " ">>, Sorted(key_phrases(doc)))
                        ELSE <<>>)
                    \o (IF WordCount(user_text) < BriefWordLimit
                        THEN BrevityNote ELSE <<>>)]

(***************************************************************************)
(* The document source: pdf_data is None or a PDF, [pages, bad]: the text  *)
(* of each page, and the first page whose extraction raises (0 for none;   *)
(* 1 also stands for a file PdfReader cannot open).                        *)
(***************************************************************************)
RECURSIVE PagesText(_, _, _)
PagesText(pages, i, bad) ==
    IF i > Len(pages) \/ i = bad THEN <<>>
    ELSE pages[i] \o PagesText(pages, i + 1, bad)

\* extract_text_from_pdf(pdf_file): the text read before any error
extract_text_from_pdf(pdf) == PagesText(pdf.pages, 1, pdf.bad)
(***************************************************************************)
(* The hosted model.  One call has the outcome m = [ok, text]: the text of *)
(* the response when ok, the message of the exception raised otherwise.    *)
(* Every generation function returns [raised, value, trace]; none lets an  *)
(* exception out of its try block, so raised is FALSE.                     *)
(***************************************************************************)
ErrDesign ==
    <<"E","r","r","o","r"," ","i","n"," ","g","e","n","e","r","a","t","i","n","g"," ",
      "s","y","s","t","e","m"," ","d","e","s","i","g","n","s",":"," ">>

ErrVerification ==
    <<"E","r","r","o","r"," ","i","n"," ","g","e","n","e","r","a","t","i","n","g"," ",
      "v","e","r","i","f","i","c","a","t","i","o","n"," ","r","e","q","u","i","r","e","m","e","n","t","s"," ",
      "a","n","d"," ","m","o","d","e","l","s",":"," ">>

ErrTraceability ==
    <<"E","r","r","o","r"," ","i","n"," ","g","e","n","e","r","a","t","i","n","g"," ",
      "t","r","a","c","e","a","b","i","l","i","t","y",":"," ">>

ErrConditions ==
    <<"E","r","r","o","r"," ","i","n"," ","g","e","n","e","r","a","t","i","n","g"," ",
      "v","e","r","i","f","i","c","a","t","i","o","n"," ","c","o","n","d","i","t","i","o","n","s",":"," ">>

PdfDataLabel == <<"\n","P","D","F"," ","d","a","t","a",":"," ">>

\* dict.get(key, "")
Get(d, key) == IF key \in DOMAIN d THEN d[key] ELSE <<>>

\* a value of `examples` that is no dict (the default, None)
NotADict == [not_a_dict |-> TRUE]

IsDict(examples) == examples # NotADict

\* pdf_data = None
NoPdf == [pages |-> <<>>, bad |-> 0, none |-> TRUE]

\* pdf_path.startswith("http://") or pdf_path.startswith("https://")
IsUrl(path) == path # <<>> /\ Head(path) \in {"http://", "https://"}

\* a load with no handler around requests.get and open
load_pdf_from_env_NoTry(pdf_path, store) ==
    IF pdf_path.set /\ pdf_path.value # <<>>
    THEN [raised |-> ~store.found,
          value |-> IF store.found THEN store.content ELSE NoPdf, out |-> <<>>]
    ELSE [raised |-> FALSE, value |-> NoPdf,
          out |-> <<"Error: PDF_PATH environment variable is not set.">>]

\* load_pdf_from_env(): pdf_path is PDF_PATH in the environment, [set, value];
\* store is what the URL or the file path leads to, [found, content], the
\* content being the bytes as they are; [raised, value, out]
load_pdf_from_env(pdf_path, store) ==
    IF pdf_path.set /\ pdf_path.value # <<>>
    THEN IF IsUrl(pdf_path.value)
         THEN IF store.found
              THEN [raised |-> FALSE, value |-> store.content, out |-> <<>>]
              ELSE [raised |-> FALSE, value |-> NoPdf,
                    out |-> <<"Error downloading PDF from URL '">> \o pdf_path.value]
         ELSE IF store.found
              THEN [raised |-> FALSE, value |-> store.content, out |-> <<>>]
              ELSE [raised |-> FALSE, value |-> NoPdf,
                    out |-> <<"Error loading PDF from '">> \o pdf_path.value]
    ELSE [raised |-> FALSE, value |-> NoPdf,
          out |-> <<"Error: PDF_PATH environment variable is not set.">>]

DefaultDesignExamples ==
    [example_reqs |-> <<"Example system requirements: [Default structured requirements].">>,
     example_designs |-> <<"Example system designs: [Detailed design example].">>]

DefaultVerifExamples ==
    [example_system_reqs |-> <<"Example system requirements: [Structured requirements].">>,
     example_verif_reqs |-> <<"{'verification': {'details': [{'example': 'verification structure'}]}}">>,
     example_designs |-> <<"{'design': {'details': [{'example': 'system design structure'}]}}">>]

\* what openai.OpenAI(api_key=None) raises when no key is configured
NoApiKeyMessage ==
    <<"The api_key client option must be set either by passing api_key to the client or by setting the OPENAI_API_KEY environment variable">>

\* a client built without a key, whose request the hosted model answers
chat_completion_IgnoreKey(m) ==
    [raised |-> FALSE, value |-> Strip(<<" ","D","o","c","\n">>)]

\* openai.OpenAI(api_key=openai.api_key), client.chat.completions.create(...),
\* then response...content.strip()
chat_completion(m) ==
    IF ~m.key THEN [raised |-> TRUE, value |-> NoApiKeyMessage]
    ELSE IF m.ok THEN [raised |-> FALSE, value |-> Strip(m.text)]
    ELSE [raised |-> TRUE, value |-> m.text]

\* the request that reaches the hosted model: none without a client
model_request(m, kind, prompt) ==
    IF m.key THEN <<Event("model", kind, prompt)>> ELSE <<>>

\* f"Row {i}: {row}\n" for each sample row
RECURSIVE RowLines(_, _)
RowLines(rows, i) ==
    IF i > Len(rows) THEN <<>>
    ELSE <<"R","o","w"," ">> \o IntStr(i) \o <<":"," ","(">> \o IntStr(rows[i])
         \o <<",",")","\n">> \o RowLines(rows, i + 1)

table_data_string(referenced_table, rows) ==
    IF referenced_table = <<>> THEN <<>>
    ELSE IF rows # <<>>
    THEN <<"Sample rows from '">> \o referenced_table \o <<"':\n">> \o RowLines(rows, 1)
    ELSE <<"No data found for table '">> \o referenced_table \o <<"'.\n">>

\* processed_requirements += f"\nPDF data: {pdf_text}" when a PDF is given
\* the slip of writing = for +=
with_pdf_data_Overwrite(processed, pdf_data) ==
    IF pdf_data # NoPdf
    THEN PdfDataLabel \o extract_text_from_pdf(pdf_data)
    ELSE processed

with_pdf_data(processed, pdf_data) ==
    IF pdf_data # NoPdf
    THEN processed \o PdfDataLabel \o extract_text_from_pdf(pdf_data)
    ELSE processed

design_query_text(processed, examples, table_structure, data_string) ==
    <<"\nUser Requirements (enhanced):\n">> \o processed
    \o <<"\n\nReference Requirements:\n">> \o Get(examples, "example_reqs")
    \o <<"\n\nReference Designs:\n">> \o Get(examples, "example_designs")
    \o <<"\n\nDatabase Structure:\n">> \o ReprDict(table_structure)
    \o <<"\n\n">> \o data_string
    \o <<"\n\nGenerate a concise system design document (500 words) that includes: [items 1-6] IMPORTANT: [4 notes]">>

generate_system_designs(user_requirements, examples, pdf_data, db, doc, order, m) ==
    LET ex == IF IsDict(examples) THEN examples ELSE DefaultDesignExamples
        enh == enhance_user_requirements(user_requirements, doc, order)
        structure == fetch_table_structure(db)
        referenced_table == detect_table_name(user_requirements)
        sample == IF referenced_table # <<>>
                  THEN fetch_specific_table(db, referenced_table, 5)
                  ELSE [raised |-> FALSE, value |-> <<>>, trace |-> <<>>]
        query_text == design_query_text(with_pdf_data(enh.value, pdf_data), ex,
                          structure.value,
                          table_data_string(referenced_table, sample.value))
        response == chat_completion(m)
    IN  IF enh.raised
        THEN [raised |-> FALSE, value |-> ErrDesign \o enh.value, trace |-> <<>>]
        ELSE [raised |-> FALSE,
              value |-> IF response.raised THEN ErrDesign \o response.value
                        ELSE response.value,
              trace |-> structure.trace \o sample.trace
                        \o model_request(m, "design", query_text)]

verification_query_text(processed, examples) ==
    <<"\nEnhanced System Requirements:\n">> \o processed
    \o <<"\n\nReference Requirements:\n">> \o Get(examples, "example_system_reqs")
    \o <<"\n\nReference Verification Examples:\n">> \o Get(examples, "example_verif_reqs")
    \o <<"\n\nReference Designs:\n">> \o Get(examples, "example_designs")
    \o <<"\n\nGenerate a concise verification requirements document (500 words) that includes: [items 1-3] IMPORTANT: [4 notes]">>

create_verification_requirements_models(system_requirements, examples, pdf_data, doc, order, m) ==
    LET ex == IF IsDict(examples) THEN examples ELSE DefaultVerifExamples
        enh == enhance_user_requirements(system_requirements, doc, order)
        query_text == verification_query_text(with_pdf_data(enh.value, pdf_data), ex)
        response == chat_completion(m)
    IN  IF enh.raised
        THEN [raised |-> FALSE, value |-> ErrVerification \o enh.value, trace |-> <<>>]
        ELSE [raised |-> FALSE,
              value |-> IF response.raised THEN ErrVerification \o response.value
                        ELSE response.value,
              trace |-> model_request(m, "verification", query_text)]

traceability_query_text(system_requirements, example_system_requirements, example_system_designs) ==
    <<"\nGenerate traceability and proof based on the given system requirements. [...]\n\nExample System Requirements (for structure reference only):\n">>
    \o example_system_requirements
    \o <<"\n\nExample System Designs (for structure reference only):\n">>
    \o example_system_designs
    \o <<"\n\nSystem Requirements: ">> \o system_requirements
    \o <<"\n\nPlease provide your answer in clearly labeled sections. Include: [items 1-2] IMPORTANT: [4 notes]">>

get_traceability(system_requirements, example_system_requirements, example_system_designs, m) ==
    LET query_text == traceability_query_text(system_requirements,
                          example_system_requirements, example_system_designs)
        response == chat_completion(m)
    IN  [raised |-> FALSE,
         value |-> IF response.raised THEN ErrTraceability \o response.value
                   ELSE response.value,
         trace |-> model_request(m, "traceability", query_text)]

conditions_query_text(system_requirements, example_system_requirements, example_verification_requirements, example_system_designs) ==
    <<"\nGenerate verification conditions based on the given system requirements. [...]\n\nExample System Requirements (for structure reference only):\n">>
    \o example_system_requirements
    \o <<"\n\nExample Verification Requirements (for structure reference only):\n">>
    \o example_verification_requirements
    \o <<"\n\nExample System Designs (for structure reference only):\n">>
    \o example_system_designs
    \o <<"\n\nSystem Requirements: ">> \o system_requirements
    \o <<"\n\nPlease provide your answer in clearly labeled sections. Include: [items 1-3] IMPORTANT: [4 notes]">>

get_verification_conditions(system_requirements, example_system_requirements, example_verification_requirements, example_system_designs, m) ==
    LET query_text == conditions_query_text(system_requirements,
                          example_system_requirements,
                          example_verification_requirements, example_system_designs)
        response == chat_completion(m)
    IN  [raised |-> FALSE,
         value |-> IF response.raised THEN ErrConditions \o response.value
                   ELSE response.value,
         trace |-> model_request(m, "conditions", query_text)]


(***************************************************************************)
(* api_integration_simple.py: the same four functions over the second      *)
(* hosted model, without database or PDF context.                          *)
(***************************************************************************)
SimpleErrDesign ==
    <<"E","r","r","o","r"," ","g","e","n","e","r","a","t","i","n","g"," ",
      "s","y","s","t","e","m"," ","d","e","s","i","g","n","s",":"," ">>

SimpleErrVerification ==
    <<"E","r","r","o","r"," ","g","e","n","e","r","a","t","i","n","g"," ",
      "v","e","r","i","f","i","c","a","t","i","o","n"," ","r","e","q","u","i","r","e","m","e","n","t","s",":"," ">>

SimpleErrTraceability ==
    <<"E","r","r","o","r"," ","g","e","n","e","r","a","t","i","n","g"," ",
      "t","r","a","c","e","a","b","i","l","i","t","y",":"," ">>

SimpleErrConditions ==
    <<"E","r","r","o","r"," ","g","e","n","e","r","a","t","i","n","g"," ",
      "v","e","r","i","f","i","c","a","t","i","o","n"," ","c","o","n","d","i","t","i","o","n","s",":"," ">>

\* the ValueError of get_gemini_client() when GEMINI_API_KEY is not set
MissingGeminiKey ==
    <<"Missing Gemini API key. Set GEMINI_API_KEY environment variable in your .env file.">>

\* get_gemini_client(), model.generate_content(prompt), response.text.strip()
generate_content(m) ==
    IF ~m.key THEN [raised |-> TRUE, value |-> MissingGeminiKey]
    ELSE IF m.ok THEN [raised |-> FALSE, value |-> Strip(m.text)]
    ELSE [raised |-> TRUE, value |-> m.text]

Simple_generate_system_designs(user_requirements, doc, m) ==
    LET enh == Simple_enhance_user_requirements(user_requirements, doc)
        prompt == <<"\nYou are a systems engineer. Generate a practical system design document for the following requirements:\n\nUser Requirements:\n">>
                  \o enh.value
                  \o <<"\n\nCreate a system design document that includes: [items 1-6]\n">>
        response == generate_content(m)
    IN  IF enh.raised
        THEN [raised |-> FALSE, value |-> SimpleErrDesign \o enh.value, trace |-> <<>>]
        ELSE [raised |-> FALSE,
              value |-> IF response.raised THEN SimpleErrDesign \o response.value
                        ELSE response.value,
              trace |-> model_request(m, "design", prompt)]

Simple_create_verification_requirements_models(system_requirements, doc, m) ==
    LET enh == Simple_enhance_user_requirements(system_requirements, doc)
        prompt == <<"\nYou are a systems engineer creating verification requirements. Based on these system requirements:\n\n">>
                  \o enh.value
                  \o <<"\n\nGenerate a verification and validation plan that includes: [items 1-6]\n">>
        response == generate_content(m)
    IN  IF enh.raised
        THEN [raised |-> FALSE, value |-> SimpleErrVerification \o enh.value, trace |-> <<>>]
        ELSE [raised |-> FALSE,
              value |-> IF response.raised THEN SimpleErrVerification \o response.value
                        ELSE response.value,
              trace |-> model_request(m, "verification", prompt)]

Simple_get_traceability(system_requirements, m) ==
    LET prompt == <<"\nCreate a traceability matrix for these system requirements:\n\n">>
                  \o system_requirements
                  \o <<"\n\nGenerate a clear traceability analysis that includes: [items 1-4]\n">>
        response == generate_content(m)
    IN  [raised |-> FALSE,
         value |-> IF response.raised THEN SimpleErrTraceability \o response.value
                   ELSE response.value,
         trace |-> model_request(m, "traceability", prompt)]

Simple_get_verification_conditions(system_requirements, m) ==
    LET prompt == <<"\nDefine verification conditions for these system requirements:\n\n">>
                  \o system_requirements
                  \o <<"\n\nCreate verification conditions that specify: [items 1-6]\n">>
        response == generate_content(m)
    IN  [raised |-> FALSE,
         value |-> IF response.raised THEN SimpleErrConditions \o response.value
                   ELSE response.value,
         trace |-> model_request(m, "conditions", prompt)]

(***************************************************************************)
(* extract_important_phrases(text).  `order` is the order in which the set *)
(* `filtered` is iterated when sorted() reads it.                          *)
(***************************************************************************)
Keywords ==
    {<<"c","o","n","s","t","r","a","i","n","t">>, <<"m","o","d","e","l">>,
     <<"e","q","u","a","t","i","o","n">>,
     <<"s","t","a","t","e"," ","m","a","c","h","i","n","e">>,
     <<"d","i","f","f","e","r","e","n","t","i","a","l"," ","e","q","u","a","t","i","o","n">>,
     <<"t","h","r","e","s","h","o","l","d">>, <<"l","i","m","i","t">>,
     <<"p","e","r","f","o","r","m","a","n","c","e">>,
     <<"a","c","c","e","l","e","r","a","t","i","o","n">>, <<"s","p","e","e","d">>,
     <<"f","o","r","c","e">>, <<"b","a","l","a","n","c","e">>,
     <<"r","e","p","r","e","s","e","n","t","a","t","i","o","n">>,
     <<"c","o","n","v","e","r","t">>, <<"c","o","m","p","a","r","e">>,
     <<"p","r","o","b","l","e","m"," ","s","p","a","c","e">>}

Units ==
    {<<"s","e","c">>, <<"s","e","c","o","n","d">>, <<"m","p","h">>,
     <<"k","m","/","h">>, <<"m","s">>, <<"g">>, <<"k","g">>, <<"h","z">>, <<"%">>}

StopSet ==
    {<<"i">>, <<"a","m">>, <<"a">>, <<"t","h","e">>, <<"i","t">>,
     <<"t","h","e","s","e">>, <<"t","h","i","s">>, <<"t","h","a","t">>}

QuantityLabels == {"QUANTITY", "CARDINAL", "PERCENT", "TIME", "DATE", "ORDINAL"}

\* re.search(r"\d", s)
HasDigit(s) == \E i \in 1..Len(s) : s[i] \in Digits

\* \b between positions k - 1 and k of s
WordBoundary(s, k) ==
    (k > 1 /\ s[k - 1] \in WordChars) # (k <= Len(s) /\ s[k] \in WordChars)

\* re.search(r"\b(sec|second|mph|km/h|ms|g|kg|Hz|%)\b", s, re.I)
HasUnit(s) ==
    \E u \in Units : \E i \in 1..(Len(s) - Len(u) + 1) :
        /\ LowerText(SubSeq(s, i, i + Len(u) - 1)) = u
        /\ WordBoundary(s, i)
        /\ WordBoundary(s, i + Len(u))

\* any(k in s.lower() for k in keywords)
HasKeyword(s) == \E k \in Keywords : Contains(LowerText(s), k)

Salient(s) == HasKeyword(s) \/ HasDigit(s) \/ HasUnit(s)

important_phrases(doc) ==
    {Strip(e.text) : e \in {x \in doc.ents :
        x.label \in QuantityLabels \/ HasDigit(x.text) \/ HasUnit(x.text)}}
    \cup {Strip(c) : c \in {x \in doc.chunks : Salient(Strip(x))}}
    \cup {Strip(doc.sents[i]) :
            i \in {k \in 1..Len(doc.sents) : Salient(Strip(doc.sents[k]))}}

\* only the short phrases dropped
filtered_phrases_NoStopSet(doc) ==
    {p \in important_phrases(doc) : Len(p) >= 4}

\* step 4: short phrases and stop words dropped
filtered_phrases(doc) ==
    {p \in important_phrases(doc) : Len(p) >= 4 /\ LowerText(p) \notin StopSet}

NotFoundIndex == 1000000000

\* phrase_index: text.index(phrase), or 1e9 when the phrase is not in text
phrase_index(text, phrase) ==
    IF Contains(text, phrase)
    THEN (CHOOSE i \in 1..(Len(text) + 1) :
            /\ SubSeq(text, i, i + Len(phrase) - 1) = phrase
            /\ \A k \in 1..(i - 1) : SubSeq(text, k, k + Len(phrase) - 1) # phrase) - 1
    ELSE NotFoundIndex

\* the phrases left in the order the set iterates in
StableSort_Unsorted(order, text) == order

\* sorted(order, key): stable, the elements of equal key keep their order.
\* The element at position i goes after those of a lower key and after the
\* earlier ones of the same key.
StableSort(order, text) ==
    LET key == [i \in 1..Len(order) |-> phrase_index(text, order[i])]
        rank == [i \in 1..Len(order) |->
                    1 + Cardinality({k \in 1..Len(order) :
                            key[k] < key[i] \/ (key[k] = key[i] /\ k < i)})]
    IN  [r \in 1..Len(order) |-> order[CHOOSE i \in 1..Len(order) : rank[i] = r]]

\* [raised, value]: the phrases in order, or the collaborator's error
extract_important_phrases(text, doc, order) ==
    IF ~doc.ok THEN [raised |-> TRUE, value |-> NlpError]
    ELSE [raised |-> FALSE, value |-> StableSort(order, text)]

(***************************************************************************)
(* generate_network_visualization(graph_data, pdf_data).                   *)
(***************************************************************************)
NoRequirements == <<"No requirements provided.">>

NoKeyRequirements == <<"No key requirements found.">>

ErrorSvg ==
    <<"<svg xmlns=\"http://www.w3.org/2000/svg\" width=\"400\" height=\"60\"><text x=\"10\" y=\"35\" fill=\"red\">Graphviz visualization unavailable (backend error)</text></svg>">>

\* the text the phrases are taken from
visualization_text(user_requirements, pdf_data) ==
    IF user_requirements # <<>> THEN user_requirements
    ELSE IF pdf_data # NoPdf
    THEN SubSeq(extract_text_from_pdf(pdf_data), 1,
                Min(500, Len(extract_text_from_pdf(pdf_data))))
    ELSE NoRequirements

\* the PDF note added for every PDF, also one without text
build_graph_NoteAlways(phrases, pdf_data) ==
    LET shown == IF phrases = <<>> THEN <<NoKeyRequirements>> ELSE phrases
        note == pdf_data # NoPdf
    IN  [nodes |-> <<[id |-> <<"REQ">>, label |-> <<"System Requirement">>, shape |-> "box"]>>
                   \o [i \in 1..Len(shown) |->
                         [id |-> <<"KP">> \o IntStr(i - 1), label |-> shown[i],
                          shape |-> "ellipse"]]
                   \o (IF note
                       THEN <<[id |-> <<"PDF">>, label |-> <<"PDF Context">>, shape |-> "note"]>>
                       ELSE <<>>),
         edges |-> [i \in 1..Len(shown) |->
                         [from |-> <<"REQ">>, to |-> <<"KP">> \o IntStr(i - 1),
                          style |-> ""]]
                   \o (IF note
                       THEN <<[from |-> <<"REQ">>, to |-> <<"PDF">>, style |-> "dashed"]>>
                       ELSE <<>>)]

\* the Digraph: the root, one node and one edge per phrase, the PDF note
build_graph(phrases, pdf_data) ==
    LET shown == IF phrases = <<>> THEN <<NoKeyRequirements>> ELSE phrases
        note == pdf_data # NoPdf /\ extract_text_from_pdf(pdf_data) # <<>>
    IN  [nodes |-> <<[id |-> <<"REQ">>, label |-> <<"System Requirement">>, shape |-> "box"]>>
                   \o [i \in 1..Len(shown) |->
                         [id |-> <<"KP">> \o IntStr(i - 1), label |-> shown[i],
                          shape |-> "ellipse"]]
                   \o (IF note
                       THEN <<[id |-> <<"PDF">>, label |-> <<"PDF Context">>, shape |-> "note"]>>
                       ELSE <<>>),
         edges |-> [i \in 1..Len(shown) |->
                         [from |-> <<"REQ">>, to |-> <<"KP">> \o IntStr(i - 1),
                          style |-> ""]]
                   \o (IF note
                       THEN <<[from |-> <<"REQ">>, to |-> <<"PDF">>, style |-> "dashed"]>>
                       ELSE <<>>)]

\* dot.pipe(format="svg") decoded: the markup of the drawing, one block a node
svg_of(graph) ==
    <<"<svg>">>
    \o Concat([i \in 1..Len(graph.nodes) |->
                  <<"<g class=\"node\"><title>">> \o graph.nodes[i].id
                  \o <<"</title><text>">> \o graph.nodes[i].label \o <<"</text></g>">>])
    \o <<"</svg>">>

\* dot.pipe outside a try: the error of the backend leaves the function
generate_network_visualization_NoTry(user_requirements, pdf_data, doc, order, render_ok) ==
    LET text == visualization_text(user_requirements, pdf_data)
        phrases == extract_important_phrases(text, doc, order)
        graph == build_graph(phrases.value, pdf_data)
    IN  IF phrases.raised
        THEN [raised |-> TRUE, value |-> phrases.value, trace |-> <<>>]
        ELSE [raised |-> ~render_ok,
              value |-> IF render_ok THEN svg_of(graph) ELSE <<"ExecutableNotFound">>,
              trace |-> <<Event("render", "svg", graph)>>]

\* [raised, value, trace]: the SVG text, the placeholder when the backend
\* fails; an error of the phrase extraction is not caught here
generate_network_visualization(user_requirements, pdf_data, doc, order, render_ok) ==
    LET text == visualization_text(user_requirements, pdf_data)
        phrases == extract_important_phrases(text, doc, order)
        graph == build_graph(phrases.value, pdf_data)
    IN  IF phrases.raised
        THEN [raised |-> TRUE, value |-> phrases.value, trace |-> <<>>]
        ELSE [raised |-> FALSE,
              value |-> IF render_ok THEN svg_of(graph) ELSE ErrorSvg,
              trace |-> <<Event("render", "svg", graph)>>]

(***************************************************************************)
(* app.py: the user store and the session.  The session is Flask's signed  *)
(* cookie, [user_id, has_log, log]: the request reads the cookie the       *)
(* client sent and the response sets it again when the handler changed it. *)
(***************************************************************************)
USERS == {"Bhargav", "Adi", "Dr.Wach"}

\* the password each stored hash was generated from
PasswordOf(username) ==
    CASE username = "Bhargav" -> "Hume2027!"
      [] username = "Adi" -> "Hume2027!!"
      [] username = "Dr.Wach" -> "Hume2027!!!"

\* User.authenticate: check_password_hash(generate_password_hash(p), q) is p = q
authenticate(username, password) ==
    username \in USERS /\ password = PasswordOf(username)

\* a user loader that finds a user for whatever the session holds
is_authenticated_Always(session) == TRUE

\* load_user, and current_user.is_authenticated for the session
is_authenticated(session) == session.user_id \in USERS

login_user(session, username) == [session EXCEPT !.user_id = username]

logout_user(session) == [session EXCEPT !.user_id = None]

Turn(sender, text) == [sender |-> sender, text |-> text]

\* session.get("conversation", [])
conversation_of(session) == IF session.has_log THEN session.log ELSE <<>>

AppErrDesign ==
    <<"E","r","r","o","r"," ","g","e","n","e","r","a","t","i","n","g"," ",
      "s","y","s","t","e","m"," ","d","e","s","i","g","n",":"," ">>

AppErrVerification ==
    <<"E","r","r","o","r"," ","g","e","n","e","r","a","t","i","n","g"," ",
      "v","e","r","i","f","i","c","a","t","i","o","n"," ","r","e","q","u","i","r","e","m","e","n","t","s",":"," ">>

AppErrTraceability ==
    <<"E","r","r","o","r"," ","g","e","n","e","r","a","t","i","n","g"," ",
      "t","r","a","c","e","a","b","i","l","i","t","y",":"," ">>

AppErrConditions ==
    <<"E","r","r","o","r"," ","g","e","n","e","r","a","t","i","n","g"," ",
      "v","e","r","i","f","i","c","a","t","i","o","n"," ","c","o","n","d","i","t","i","o","n","s",":"," ">>

ChatCompletionName ==
    <<"o","p","e","n","a","i",".","C","h","a","t","C","o","m","p","l","e","t","i","o","n">>

\* the example values combined passes to the generation functions
AppDesignExamples ==
    [example_reqs |-> <<"Example system requirements: [Structured requirements based on the dissertation].">>,
     example_designs |-> <<"Example system designs: [Detailed design example].">>]

AppVerifExamples ==
    [example_system_reqs |-> <<"Example system requirements: [Structured requirements based on the dissertation].">>,
     example_verif_reqs |-> <<"{'verification': {'details': [{'example': 'verification requirement structure'}]}}">>,
     example_designs |-> <<"{'design': {'details': [{'example': 'system design structure'}]}}">>]

AppExampleRequirements ==
    <<"Example system requirements: [Structured requirements based on the dissertation].">>

AppExampleDesigns == <<"{'design': {'details': [{'example': 'system design structure'}]}}">>

AppExampleVerification ==
    <<"{'verification': {'details': [{'example': 'verification requirement structure'}]}}">>

\* try: ... except Exception as e: f"<prefix>{str(e)}" around one generation
\* call; [crashed, value]
guarded(r, prefix) ==
    [crashed |-> FALSE, value |-> IF r.raised THEN prefix \o r.value ELSE r.value]

\* the same around the verification call, with the hint for the old client
guarded_verification(r) ==
    [crashed |-> FALSE,
     value |-> IF r.raised
               THEN AppErrVerification \o r.value
                    \o (IF Contains(r.value, ChatCompletionName)
                        THEN <<" Please run 'openai migrate' or install openai==0.28 to pin to the old version.">>
                        ELSE <<>>)
               ELSE r.value]

\* the visualization call left without its try block
guarded_visual_NoTry(v) ==
    [crashed |-> v.raised, none |-> FALSE, svg |-> v.value]

\* try: morphism_image = generate_network_visualization(...)
\* except Exception: morphism_image = None
guarded_visual(v) ==
    [crashed |-> FALSE, none |-> v.raised, svg |-> IF v.raised THEN <<>> ELSE v.value]

combined_text(system_design, verification, traceability, conditions) ==
    <<"=== System Design ===\n">> \o system_design \o <<"\n", "\n">>
    \o <<"=== Verification Requirements ===\n">> \o verification \o <<"\n", "\n">>
    \o <<"=== Traceability ===\n">> \o traceability \o <<"\n", "\n">>
    \o <<"=== Verification Conditions ===\n">> \o conditions

PleaseEnterPrompt == <<"Please enter a prompt.">>

\* os.environ.get(name): [set, value]; not set gives None
Unset == [set |-> FALSE, value |-> <<>>]

\* `not value` of what os.environ.get returned: None or the empty string
Falsy(v) == ~v.set \/ v.value = <<>>

ApiKeyWarning ==
    <<"WARNING: API_KEY environment variable not set! (Check your .env file and its location)">>

\* initialize_api(api_key) with a key passed in: [ok, api_key, out], where
\* api_key is what openai.api_key holds afterwards
initialize_api(api_key) ==
    IF Falsy(api_key)
    THEN [ok |-> FALSE, api_key |-> Unset, out |-> <<"No API key provided.">>]
    ELSE [ok |-> TRUE, api_key |-> api_key,
          out |-> <<"API initialized with key from environment variable.">>]

\* module startup of app.py for the value of API_KEY: a warning when there
\* is none, initialize_api otherwise; [raised, api_key, out]
startup_api_key(api_key) ==
    IF Falsy(api_key)
    THEN [raised |-> FALSE, api_key |-> Unset, out |-> ApiKeyWarning]
    ELSE LET r == initialize_api(api_key)
         IN  [raised |-> FALSE, api_key |-> r.api_key, out |-> r.out]

\* module startup of app.py, the PDF load: open(pdf_path) when PDF_PATH is
\* set, else base64.b64decode(pdf_b64) when PDF_B64 is set, else nothing;
\* decoded is what b64decode gives, [found, content], found being FALSE
\* when it raises; [raised, pdf_data, out]
startup_pdf(pdf_path, pdf_b64, store, decoded) ==
    IF pdf_path.set /\ pdf_path.value # <<>>
    THEN IF store.found
         THEN [raised |-> FALSE, pdf_data |-> store.content,
               out |-> <<"PDF loaded from ">> \o pdf_path.value]
         ELSE [raised |-> FALSE, pdf_data |-> NoPdf, out |-> <<"Error loading PDF: ">>]
    ELSE IF pdf_b64.set /\ pdf_b64.value # <<>>
    THEN IF decoded.found
         THEN [raised |-> FALSE, pdf_data |-> decoded.content,
               out |-> <<"PDF loaded from PDF_B64 environment variable.">>]
         ELSE [raised |-> FALSE, pdf_data |-> NoPdf, out |-> <<"Error loading PDF: ">>]
    ELSE [raised |-> FALSE, pdf_data |-> NoPdf,
          out |-> <<"PDF path or PDF_B64 not set, skipping PDF load.">>]

\* a client can be built from what startup left in openai.api_key
HasClient(api_key) == ~Falsy(startup_api_key(api_key).api_key)

\* the body of a response that carries no document
NoBody == [response |-> <<>>]

\* the calls of the generation functions in the order combined makes them
IsModelEvent(e) == e.op = "model"

\* a failed design call made a second time
generation_calls_Retrying(prompt, env) ==
    LET design == generate_system_designs(prompt, AppDesignExamples, env.pdf,
                      env.db, env.doc, env.order, env.m["design"])
    IN  [design |-> IF env.m["design"].ok THEN design
                    ELSE [design EXCEPT !.trace =
                            design.trace \o SelectSeq(design.trace, IsModelEvent)],
         verification |-> create_verification_requirements_models(prompt,
                              AppVerifExamples, env.pdf, env.doc, env.order,
                              env.m["verification"]),
         traceability |-> get_traceability(prompt, AppExampleRequirements,
                              AppExampleDesigns, env.m["traceability"]),
         conditions |-> get_verification_conditions(prompt, AppExampleRequirements,
                              AppExampleVerification, AppExampleDesigns,
                              env.m["conditions"])]

generation_calls(prompt, env) ==
    [design |-> generate_system_designs(prompt, AppDesignExamples, env.pdf,
                    env.db, env.doc, env.order, env.m["design"]),
     verification |-> create_verification_requirements_models(prompt,
                          AppVerifExamples, env.pdf, env.doc, env.order,
                          env.m["verification"]),
     traceability |-> get_traceability(prompt, AppExampleRequirements,
                          AppExampleDesigns, env.m["traceability"]),
     conditions |-> get_verification_conditions(prompt, AppExampleRequirements,
                        AppExampleVerification, AppExampleDesigns,
                        env.m["conditions"])]

\* the log after the two turns of this request are appended
updated_conversation_Reset(session, prompt, text) ==
    <<Turn("User", prompt), Turn("Assistant", text)>>

\* only the turn of the user is appended
updated_conversation_UserOnly(session, prompt, text) ==
    conversation_of(session) \o <<Turn("User", prompt)>>

updated_conversation(session, prompt, text) ==
    conversation_of(session) \o <<Turn("User", prompt), Turn("Assistant", text)>>

\* a handler that gives up at the first call that reported an error: the
\* calls after a failed design call are not made
request_trace_StopAtFailure(prompt, g, v) ==
    <<Event("call", "design", prompt)>> \o g.design.trace
    \o (IF SubSeq(g.design.value, 1, 5) = <<"E","r","r","o","r">> THEN <<>>
        ELSE <<Event("call", "verification", prompt)>> \o g.verification.trace
             \o <<Event("call", "traceability", prompt)>> \o g.traceability.trace
             \o <<Event("call", "conditions", prompt)>> \o g.conditions.trace
             \o <<Event("call", "visual", prompt)>> \o v.trace)

\* what combined() did, in the order of its statements: each call of the
\* integration module, followed by what that call did
request_trace(prompt, g, v) ==
    <<Event("call", "design", prompt)>> \o g.design.trace
    \o <<Event("call", "verification", prompt)>> \o g.verification.trace
    \o <<Event("call", "traceability", prompt)>> \o g.traceability.trace
    \o <<Event("call", "conditions", prompt)>> \o g.conditions.trace
    \o <<Event("call", "visual", prompt)>> \o v.trace

\* the rest of combined once the generation functions (g) and the
\* visualization (v) have returned
combined_documents(session, prompt, g, v) ==
    LET system_design == guarded(g.design, AppErrDesign)
        verification == guarded_verification(g.verification)
        traceability == guarded(g.traceability, AppErrTraceability)
        conditions == guarded(g.conditions, AppErrConditions)
        visual == guarded_visual(v)
        text == combined_text(system_design.value, verification.value,
                              traceability.value, conditions.value)
        all_trace == request_trace(prompt, g, v)
    IN  IF system_design.crashed \/ verification.crashed
           \/ traceability.crashed \/ conditions.crashed \/ visual.crashed
        THEN \* an exception left the handler: Flask answers 500
             [status |-> 500, kind |-> "error", body |-> NoBody,
              session |-> session, modified |-> FALSE, trace |-> all_trace]
        ELSE [status |-> 200, kind |-> "documents",
              body |-> [system_design |-> system_design.value,
                        verification_requirements |-> verification.value,
                        traceability |-> traceability.value,
                        verification_conditions |-> conditions.value,
                        system_visual |-> [none |-> visual.none, svg |-> visual.svg]],
              session |-> [session EXCEPT
                             !.has_log = TRUE,
                             !.log = updated_conversation(session, prompt, text)],
              modified |-> TRUE, trace |-> all_trace]

\* the handler without its check of the prompt
combined_NoPromptCheck(session, form_prompt, env) ==
    IF ~is_authenticated(session)
    THEN [status |-> 302, kind |-> "redirect", body |-> NoBody,
          session |-> session, modified |-> FALSE, trace |-> <<>>]
    ELSE Bind(Strip(form_prompt), LAMBDA prompt :
         Bind(generation_calls(prompt, env), LAMBDA g :
         Bind(generate_network_visualization(prompt, env.pdf, env.doc,
                  env.vorder, env.render_ok), LAMBDA v :
              combined_documents(session, prompt, g, v))))

\* combined(): the handler of POST /combined for the session the request
\* carried and the form's prompt, under the environment env.
\* [status, kind, body, session, modified, trace]
combined(session, form_prompt, env) ==
    IF ~is_authenticated(session)
    THEN \* login_required: unauthorized, redirect to the login view
         [status |-> 302, kind |-> "redirect", body |-> NoBody,
          session |-> session, modified |-> FALSE, trace |-> <<>>]
    ELSE Bind(Strip(form_prompt), LAMBDA prompt :
         IF prompt = <<>>
         THEN [status |-> 200, kind |-> "message",
               body |-> [response |-> PleaseEnterPrompt],
               session |-> session, modified |-> FALSE, trace |-> <<>>]
         ELSE Bind(generation_calls(prompt, env), LAMBDA g :
              Bind(generate_network_visualization(prompt, env.pdf, env.doc,
                       env.vorder, env.render_ok), LAMBDA v :
                   combined_documents(session, prompt, g, v))))

\* a login view that does not sign the current user out first
login_NoLogout(session, method, username, password) ==
    IF method = "POST" /\ authenticate(username, password)
    THEN [status |-> 302, kind |-> "redirect",
          session |-> login_user(session, username), modified |-> TRUE]
    ELSE [status |-> IF method = "POST" THEN 401 ELSE 200, kind |-> "login page",
          session |-> session, modified |-> FALSE]

\* login(): GET or POST /login; [status, kind, session, modified]
login(session, method, username, password) ==
    LET s1 == IF is_authenticated(session) THEN logout_user(session) ELSE session
    IN  IF method = "POST" /\ authenticate(username, password)
        THEN [status |-> 302, kind |-> "redirect",
              session |-> login_user(s1, username), modified |-> TRUE]
        ELSE [status |-> IF method = "POST" THEN 401 ELSE 200, kind |-> "login page",
              session |-> s1, modified |-> s1 # session]

\* logout(): GET /logout
logout(session) ==
    IF ~is_authenticated(session)
    THEN [status |-> 302, kind |-> "redirect", session |-> session, modified |-> FALSE]
    ELSE [status |-> 200, kind |-> "logged out",
          session |-> logout_user(session), modified |-> TRUE]

\* index(): GET /
index(session) ==
    IF ~is_authenticated(session)
    THEN [status |-> 302, kind |-> "redirect", session |-> session, modified |-> FALSE]
    ELSE [status |-> 200, kind |-> "index page",
          session |-> IF session.has_log THEN session
                      ELSE [session EXCEPT !.has_log = TRUE, !.log = <<>>],
          modified |-> ~session.has_log]

\* whoami(): GET /whoami
whoami(session) ==
    IF ~is_authenticated(session)
    THEN [status |-> 302, kind |-> "redirect", user |-> None]
    ELSE [status |-> 200, kind |-> "user", user |-> session.user_id]

(***************************************************************************)
(* The state before any operation.                                         *)
(***************************************************************************)
NoCall == [fn |-> "none"]

Init ==
    /\ cookie = [user_id |-> None, has_log |-> FALSE, log |-> <<>>]
    /\ inflight = {}
    /\ served = 0
    /\ call = NoCall
    /\ ret = None
    /\ trace = <<>>

(***************************************************************************)
(* The inputs the operations are driven with.                              *)
(***************************************************************************)
MaxSpanStart == 7       \* the last position a span of nlp may start at
MaxPdfChars == 1001     \* the text of the longest PDF

NameAlphabet == {"t", "1", "_", ";", " ", "\n", NonAsciiLetter}

TableNames == SeqsUpTo(NameAlphabet, MaxNameLen)

Limits == {0, 1, DefaultLimit}

TwentyWords == <<"a">> \o Repeat(<<" ", "a">>, BriefWordLimit - 1)

LibTexts ==
    {<<>>, <<" ", "\t">>, <<"a","b"," ","c","d">>, <<" ","a","b","\n">>,
     <<"t","a","b","l","e"," ","t">>, TwentyWords}

\* a text of twenty words whose last words are those of the brevity note
NotedText == <<"a">> \o Repeat(<<" ", "a">>, BriefWordLimit - 13) \o BrevityNote

EnhanceTexts == LibTexts \cup {NotedText}

\* the words nlp may return as a span: those that start among the first
\* MaxSpanStart characters
Spans(text) == {WordAt(text, i) : i \in {k \in WordStarts(text) : k <= MaxSpanStart}}

\* what nlp(text) may return: any of the spans as noun chunks, at most one
\* entity; or the pipeline raises
NlpDocs(text) ==
    {[ok |-> FALSE, chunks |-> {}, ents |-> {}, sents |-> <<>>]}
    \cup {[ok |-> TRUE, chunks |-> c, ents |-> e, sents |-> <<>>] :
            c \in SUBSET Spans(text),
            e \in {{}} \cup {{[text |-> w, label |-> "CARDINAL"]} : w \in Spans(text)}}

\* the text whose phrases are extracted: "These 5 kg speed"
PhraseText ==
    <<"T","h","e","s","e"," ","5"," ","k","g"," ","s","p","e","e","d">>

\* what nlp(PhraseText) may return: entities and noun chunks of the text (a
\* stop word, a one-digit number, two spans that start at the same place),
\* a chunk that is not in the text letter for letter, the text as one
\* sentence; or the pipeline raises
PhraseDocs ==
    {[ok |-> FALSE, chunks |-> {}, ents |-> {}, sents |-> <<>>]}
    \cup {[ok |-> TRUE, chunks |-> c, ents |-> e, sents |-> t] :
            c \in SUBSET {<<"s","p","e","e","d">>,
                          <<"5"," ","k","g"," ","s","p","e","e","d">>,
                          <<"l","i","m","i","t","s">>},
            e \in SUBSET {[text |-> <<"T","h","e","s","e">>, label |-> "ORDINAL"],
                          [text |-> <<"5">>, label |-> "CARDINAL"],
                          [text |-> <<"5"," ","k","g">>, label |-> "QUANTITY"]},
            t \in {<<>>, <<PhraseText>>}}

SmallPdf == [pages |-> << <<"p","q">>, <<"r">> >>, bad |-> 0, none |-> FALSE]

Pdfs ==
    {NoPdf, SmallPdf, [SmallPdf EXCEPT !.bad = 1], [SmallPdf EXCEPT !.bad = 2],
     [pages |-> <<Repeat(<<"x">>, MaxPdfChars)>>, bad |-> 0, none |-> FALSE]}

\* the process has no API key: no client can be built
NoClient == [key |-> FALSE, ok |-> FALSE, text |-> <<>>]

\* what a generation call meets: a completion, an error of the hosted
\* model, no client
ModelOutcomes ==
    {[key |-> TRUE, ok |-> TRUE, text |-> <<" ","D","o","c","\n">>],
     [key |-> TRUE, ok |-> FALSE, text |-> <<"q","u","o","t","a">>],
     NoClient}

Impls == {"api_integration", "api_integration_simple"}

Kinds == {"design", "verification", "traceability", "conditions"}

(***************************************************************************)
(* SpecLib: the integration functions called directly, as a test or        *)
(* another module calls them.  A call is made from the idle state and      *)
(* Return hands its result to the caller.                                  *)
(***************************************************************************)
Idle == call = NoCall

CallFetchSpecificTable ==
    /\ Idle
    /\ \E db \in DbModes, name \in TableNames, limit \in Limits :
        \E r \in {fetch_specific_table(db, name, limit)} :
            /\ call' = [fn |-> "fetch_specific_table", db |-> db,
                        table_name |-> name, limit |-> limit]
            /\ ret' = [raised |-> r.raised, value |-> r.value]
            /\ trace' = r.trace
    /\ UNCHANGED <<cookie, inflight, served>>

CallListAllTables ==
    /\ Idle
    /\ \E db \in DbModes :
        \E r \in {list_all_tables(db)} :
            /\ call' = [fn |-> "list_all_tables", db |-> db]
            /\ ret' = [raised |-> FALSE, value |-> r.value]
            /\ trace' = r.trace
    /\ UNCHANGED <<cookie, inflight, served>>

CallFetchTableStructure ==
    /\ Idle
    /\ \E db \in DbModes :
        \E r \in {fetch_table_structure(db)} :
            /\ call' = [fn |-> "fetch_table_structure", db |-> db]
            /\ ret' = [raised |-> FALSE, value |-> r.value]
            /\ trace' = r.trace
    /\ UNCHANGED <<cookie, inflight, served>>

CallEnhance ==
    /\ Idle
    /\ \E impl \in Impls, text \in EnhanceTexts :
       \E doc \in NlpDocs(text) :
       \E order \in Perms(key_phrases(doc)) :
        \E r \in {IF impl = "api_integration"
                 THEN enhance_user_requirements(text, doc, order)
                 ELSE Simple_enhance_user_requirements(text, doc)} :
            /\ call' = [fn |-> "enhance_user_requirements", impl |-> impl,
                        text |-> text, doc |-> doc, order |-> order]
            /\ ret' = [raised |-> r.raised, value |-> r.value]
            /\ trace' = <<>>
    /\ UNCHANGED <<cookie, inflight, served>>

CallExtractPhrases ==
    /\ Idle
    /\ \E doc \in PhraseDocs :
       \E order \in Perms(filtered_phrases(doc)) :
        \E r \in {extract_important_phrases(PhraseText, doc, order)} :
            /\ call' = [fn |-> "extract_important_phrases", text |-> PhraseText,
                        doc |-> doc, order |-> order]
            /\ ret' = [raised |-> r.raised, value |-> r.value]
            /\ trace' = <<>>
    /\ UNCHANGED <<cookie, inflight, served>>

\* what nlp returns for the text of a diagram: for PhraseText some of
\* PhraseDocs, for another text no span; or the pipeline raises
VisualDocs(text) ==
    IF text = PhraseText
    THEN {d \in PhraseDocs : d.sents = <<>> /\ Cardinality(d.ents) <= 1}
    ELSE {[ok |-> FALSE, chunks |-> {}, ents |-> {}, sents |-> <<>>],
          [ok |-> TRUE, chunks |-> {}, ents |-> {}, sents |-> <<>>]}

CallVisualization ==
    /\ Idle
    /\ \E user_requirements \in {<<>>, PhraseText},
          pdf \in {NoPdf, SmallPdf, [SmallPdf EXCEPT !.bad = 1]},
          render_ok \in BOOLEAN :
       \E doc \in VisualDocs(visualization_text(user_requirements, pdf)) :
       \E order \in Perms(filtered_phrases(doc)) :
        \E r \in {generate_network_visualization(user_requirements, pdf, doc,
                                                  order, render_ok)} :
            /\ call' = [fn |-> "generate_network_visualization",
                        user_requirements |-> user_requirements, pdf |-> pdf,
                        doc |-> doc, order |-> order, render_ok |-> render_ok]
            /\ ret' = [raised |-> r.raised, value |-> r.value]
            /\ trace' = r.trace
    /\ UNCHANGED <<cookie, inflight, served>>

\* one of the four generation functions of either implementation
Generate(impl, kind, text, examples, pdf, db, doc, order, m) ==
    IF impl = "api_integration"
    THEN CASE kind = "design" ->
                generate_system_designs(text, examples, pdf, db, doc, order, m)
           [] kind = "verification" ->
                create_verification_requirements_models(text,
                    IF IsDict(examples) THEN AppVerifExamples ELSE NotADict,
                    pdf, doc, order, m)
           [] kind = "traceability" ->
                get_traceability(text, AppExampleRequirements, AppExampleDesigns, m)
           [] kind = "conditions" ->
                get_verification_conditions(text, AppExampleRequirements,
                    AppExampleVerification, AppExampleDesigns, m)
    ELSE CASE kind = "design" -> Simple_generate_system_designs(text, doc, m)
           [] kind = "verification" ->
                Simple_create_verification_requirements_models(text, doc, m)
           [] kind = "traceability" -> Simple_get_traceability(text, m)
           [] kind = "conditions" -> Simple_get_verification_conditions(text, m)

\* the inputs a call of that function reads (the others are held fixed)
UsesNlp(kind) == kind \in {"design", "verification"}

UsesContext(impl, kind) == impl = "api_integration" /\ UsesNlp(kind)

UsesDb(impl, kind) == impl = "api_integration" /\ kind = "design"

CallGenerate ==
    /\ Idle
    /\ \E impl \in Impls, kind \in Kinds, text \in LibTexts, m \in ModelOutcomes :
       \E doc \in IF UsesNlp(kind) THEN NlpDocs(text)
                  ELSE {[ok |-> TRUE, chunks |-> {}, ents |-> {}, sents |-> <<>>]} :
       \E order \in IF impl = "api_integration" THEN Perms(key_phrases(doc))
                    ELSE {Sorted(key_phrases(doc))} :
       \E pdf \in IF UsesContext(impl, kind) THEN Pdfs ELSE {NoPdf} :
       \E db \in IF UsesDb(impl, kind) THEN DbModes ELSE {"noconfig"} :
       \E examples \in IF UsesContext(impl, kind) THEN {NotADict, AppDesignExamples}
                       ELSE {NotADict} :
        \E r \in {Generate(impl, kind, text, examples, pdf, db, doc, order, m)} :
            /\ call' = [fn |-> "generate", impl |-> impl, kind |-> kind,
                        text |-> text, examples |-> examples, pdf |-> pdf,
                        db |-> db, doc |-> doc, order |-> order, m |-> m]
            /\ ret' = [raised |-> r.raised, value |-> r.value]
            /\ trace' = r.trace
    /\ UNCHANGED <<cookie, inflight, served>>

Return ==
    /\ ~Idle
    /\ call' = NoCall
    /\ ret' = None
    /\ trace' = <<>>
    /\ UNCHANGED <<cookie, inflight, served>>

\* API_KEY in the environment: not set, set to nothing, set to a key
ApiKeys == {Unset, [set |-> TRUE, value |-> <<>>], [set |-> TRUE, value |-> <<"s","k">>]}

\* a document PyPDF2 cannot read at all
CorruptPdf == [SmallPdf EXCEPT !.bad = 1]

\* PDF_PATH in the environment: not set, empty, a URL, a file path
PdfPaths ==
    {Unset, [set |-> TRUE, value |-> <<>>],
     [set |-> TRUE, value |-> <<"https://", "h", "/", "d">>],
     [set |-> TRUE, value |-> <<"d", ".", "p", "d", "f">>]}

\* PDF_B64 in the environment
PdfB64s == {Unset, [set |-> TRUE, value |-> <<>>], [set |-> TRUE, value |-> <<"J","V","=">>]}

\* what a location or a decoding yields: nothing (the file is missing, the
\* URL unreachable, the padding wrong), a PDF, bytes that are no PDF
Stores ==
    {[found |-> FALSE, content |-> NoPdf],
     [found |-> TRUE, content |-> SmallPdf],
     [found |-> TRUE, content |-> CorruptPdf]}

CallLoadPdfFromEnv ==
    /\ Idle
    /\ \E pdf_path \in PdfPaths, store \in Stores :
        \E r \in {load_pdf_from_env(pdf_path, store)} :
            /\ call' = [fn |-> "load_pdf_from_env", pdf_path |-> pdf_path,
                        store |-> store]
            /\ ret' = [raised |-> r.raised, value |-> r.value]
            /\ trace' = <<>>
    /\ UNCHANGED <<cookie, inflight, served>>

CallStartup ==
    /\ Idle
    /\ \E api_key \in ApiKeys, pdf_path \in PdfPaths, pdf_b64 \in PdfB64s,
          store \in Stores, decoded \in Stores :
        \E k \in {startup_api_key(api_key)} :
        \E r \in {startup_pdf(pdf_path, pdf_b64, store, decoded)} :
            /\ call' = [fn |-> "startup", api_key |-> api_key, pdf_path |-> pdf_path,
                        pdf_b64 |-> pdf_b64, store |-> store, decoded |-> decoded]
            /\ ret' = [raised |-> k.raised \/ r.raised, value |-> r.pdf_data,
                       api_key |-> k.api_key]
            /\ trace' = <<>>
    /\ UNCHANGED <<cookie, inflight, served>>

CallExtractTextFromPdf ==
    /\ Idle
    /\ \E pdf \in Pdfs \ {NoPdf} :
        \E r \in {extract_text_from_pdf(pdf)} :
            /\ call' = [fn |-> "extract_text_from_pdf", pdf |-> pdf]
            /\ ret' = [raised |-> FALSE, value |-> r]
            /\ trace' = <<>>
    /\ UNCHANGED <<cookie, inflight, served>>

NextLib ==
    \/ CallFetchSpecificTable
    \/ CallListAllTables
    \/ CallFetchTableStructure
    \/ CallEnhance
    \/ CallExtractPhrases
    \/ CallVisualization
    \/ CallGenerate
    \/ CallLoadPdfFromEnv
    \/ CallStartup
    \/ CallExtractTextFromPdf
    \/ Return

SpecLib == Init /\ [][NextLib]_vars

(***************************************************************************)
(* The web application.  Every route but /combined is answered in one      *)
(* step.  A /combined request is received (the session it carries is the   *)
(* cookie of that moment) and answered later (the handler runs, and the    *)
(* response sets the cookie when the session was changed).                 *)
(*   mode "request"  one request at a time, each by a client whose session *)
(*                   is one of StartSessions, under every environment      *)
(*   mode "seq"      one session, its requests one after another           *)
(*   mode "overlap"  one session, /combined requests may overlap           *)
(***************************************************************************)
MaxInFlight == 2    \* /combined requests in flight at once

Slots == 1..MaxInFlight

FormPrompts ==
    {<<>>, <<" ", "\n">>, <<" ","t","a","b","l","e"," ","t","\n">>,
     <<"s","p","e","e","d"," ","5">>}

\* what nlp(text) returns in a request: an error, nothing salient, or every
\* word as a noun chunk and the text as one sentence
RequestDocs(text) ==
    {[ok |-> FALSE, chunks |-> {}, ents |-> {}, sents |-> <<>>],
     [ok |-> TRUE, chunks |-> {}, ents |-> {}, sents |-> <<>>],
     [ok |-> TRUE, chunks |-> Words(text), ents |-> {}, sents |-> <<text>>]}

RequestPdfs == {NoPdf, SmallPdf, [SmallPdf EXCEPT !.bad = 1]}

\* the outcomes of the four calls of one request: the API key is read once,
\* at startup, so every call has a client or none has
ProcessOutcomes(api_key) ==
    {f \in [Kinds -> ModelOutcomes] : \A k \in Kinds : f[k].key = HasClient(api_key)}

\* every environment a request may run in
RequestEnvs(text) ==
    UNION {{[db |-> db, doc |-> x.doc, order |-> order, vorder |-> vorder, m |-> m,
             api_key |-> x.api_key, pdf |-> pdf, render_ok |-> render_ok] :
                db \in DbModes, m \in ProcessOutcomes(x.api_key), pdf \in RequestPdfs,
                render_ok \in BOOLEAN, order \in Perms(key_phrases(x.doc)),
                vorder \in Perms(filtered_phrases(x.doc))} :
           x \in [doc : RequestDocs(text), api_key : ApiKeys]}

\* the two environments of the session specifications: every collaborator
\* works, every collaborator fails
HealthyEnv(text) ==
    LET doc == [ok |-> TRUE, chunks |-> Words(text), ents |-> {}, sents |-> <<text>>]
    IN  [db |-> "up", doc |-> doc, order |-> Sorted(key_phrases(doc)),
         vorder |-> Sorted(filtered_phrases(doc)),
         m |-> [k \in Kinds |-> [key |-> TRUE, ok |-> TRUE, text |-> <<" ","D","o","c","\n">>]],
         api_key |-> [set |-> TRUE, value |-> <<"s","k">>],
         pdf |-> SmallPdf, render_ok |-> TRUE]

FailingEnv(text) ==
    [db |-> "connfail",
     doc |-> [ok |-> FALSE, chunks |-> {}, ents |-> {}, sents |-> <<>>],
     order |-> <<>>, vorder |-> <<>>,
     m |-> [k \in Kinds |-> [key |-> TRUE, ok |-> FALSE, text |-> <<"q","u","o","t","a">>]],
     api_key |-> [set |-> TRUE, value |-> <<"s","k">>],
     pdf |-> SmallPdf, render_ok |-> FALSE]

SessionEnvs(text) == {HealthyEnv(text), FailingEnv(text)}

EnvsOf(mode, text) == IF mode = "request" THEN RequestEnvs(text) ELSE SessionEnvs(text)

Usernames == {"Adi", "Bhargav", "mallory"}

Passwords == {"Hume2027!", "Hume2027!!", "wrong"}

FreshSession == [user_id |-> None, has_log |-> FALSE, log |-> <<>>]

\* the sessions a single request is tried on: signed out, signed in without
\* a log, signed in with the log one earlier request left
StartSessions ==
    {FreshSession,
     login_user(FreshSession, "Adi"),
     combined(login_user(FreshSession, "Adi"), <<"s","p","e","e","d"," ","5">>,
              FailingEnv(<<"s","p","e","e","d"," ","5">>)).session}

\* no other request is being served, unless requests may overlap
MayStart(mode) ==
    /\ mode = "request" => Idle
    /\ mode # "overlap" => inflight = {}

\* the response of a route that is answered in one step
Answer(route, r) ==
    /\ call' = [fn |-> route, session |-> cookie]
    /\ ret' = [status |-> r.status, kind |-> r.kind, body |-> NoBody]
    /\ trace' = <<>>
    /\ UNCHANGED <<inflight, served>>

HttpLogin(mode) ==
    /\ MayStart(mode)
    /\ \E method \in {"GET", "POST"}, username \in Usernames, password \in Passwords :
        \E r \in {login(cookie, method, username, password)} :
            /\ cookie' = IF r.modified THEN r.session ELSE cookie
            /\ call' = [fn |-> "/login", session |-> cookie, method |-> method,
                        username |-> username, password |-> password]
            /\ ret' = [status |-> r.status, kind |-> r.kind, body |-> NoBody]
            /\ trace' = <<>>
            /\ UNCHANGED <<inflight, served>>

HttpLogout(mode) ==
    /\ MayStart(mode)
    /\ \E r \in {logout(cookie)} :
           /\ cookie' = IF r.modified THEN r.session ELSE cookie
           /\ Answer("/logout", r)

HttpIndex(mode) ==
    /\ MayStart(mode)
    /\ \E r \in {index(cookie)} :
           /\ cookie' = IF r.modified THEN r.session ELSE cookie
           /\ Answer("/", r)

HttpWhoami(mode) ==
    /\ MayStart(mode)
    /\ \E r \in {whoami(cookie)} :
           /\ cookie' = cookie
           /\ Answer("/whoami", r)

CombinedReceive(mode) ==
    /\ MayStart(mode)
    /\ served < MaxRequests
    /\ \E slot \in Slots, form_prompt \in FormPrompts :
        /\ \A r \in inflight : r.slot # slot
        /\ inflight' = inflight \cup
                {[slot |-> slot, session |-> cookie, prompt |-> form_prompt]}
    /\ served' = served + 1
    /\ UNCHANGED <<cookie, call, ret, trace>>

CombinedRespond(mode) ==
    \E r \in inflight :
    \E env \in EnvsOf(mode, Strip(r.prompt)) :
    \E h \in {combined(r.session, r.prompt, env)} :
            /\ cookie' = IF h.modified THEN h.session ELSE cookie
            /\ inflight' = inflight \ {r}
            /\ call' = [fn |-> "/combined", session |-> r.session,
                        prompt |-> r.prompt, env |-> env]
            /\ ret' = [status |-> h.status, kind |-> h.kind, body |-> h.body]
            /\ trace' = h.trace
            /\ UNCHANGED served

\* the next request is another client's
NextClient ==
    /\ ~Idle
    /\ inflight = {}
    /\ cookie' \in StartSessions
    /\ inflight' = {}
    /\ call' = NoCall
    /\ ret' = None
    /\ trace' = <<>>
    /\ served' = 0

InitRequest ==
    /\ cookie \in StartSessions
    /\ inflight = {}
    /\ served = 0
    /\ call = NoCall
    /\ ret = None
    /\ trace = <<>>

NextRequest ==
    \/ CombinedReceive("request")
    \/ CombinedRespond("request")
    \/ NextClient

SpecRequest == InitRequest /\ [][NextRequest]_vars

NextSeq ==
    \/ HttpLogin("seq")
    \/ HttpLogout("seq")
    \/ HttpIndex("seq")
    \/ HttpWhoami("seq")
    \/ CombinedReceive("seq")
    \/ CombinedRespond("seq")

SpecSeq == Init /\ [][NextSeq]_vars

Next ==
    \/ HttpLogin("overlap")
    \/ HttpLogout("overlap")
    \/ HttpIndex("overlap")
    \/ HttpWhoami("overlap")
    \/ CombinedReceive("overlap")
    \/ CombinedRespond("overlap")

Spec == Init /\ [][Next]_vars

(***************************************************************************)
(* Properties.                                                             *)
(***************************************************************************)
\* p is the start of s
IsPrefix(p, s) == Len(p) <= Len(s) /\ SubSeq(s, 1, Len(p)) = p

\* the collaborator calls of the last operation with that op and tag
Calls(op, tag) == {i \in 1..Len(trace) : trace[i].op = op /\ trace[i].tag = tag}

\* the prompt the last generation call sent to the hosted model
SentPrompt == trace[CHOOSE i \in 1..Len(trace) : trace[i].op = "model"].text

ModelReached == \E i \in 1..Len(trace) : trace[i].op = "model"

ErrorGenerating ==
    <<"E","r","r","o","r"," ","g","e","n","e","r","a","t","i","n","g">>

\* C1: when the hosted-model client raises inside one of the four generation
\* functions, the function returns (it does not raise) a string that begins
\* with "Error generating" and contains the message of the exception.
C1_ClientErrorReported ==
    (call.fn = "generate" /\ ModelReached /\ ~call.m.ok)
        => /\ ~ret.raised
           /\ IsPrefix(ErrorGenerating, ret.value)
           /\ Contains(ret.value, call.m.text)

\* the last operation was a /combined request of a signed-in session with a
\* prompt that is not empty after trimming
DocumentsRequested ==
    /\ call.fn = "/combined"
    /\ is_authenticated(call.session)
    /\ Strip(call.prompt) # <<>>

FiveFields ==
    {"system_design", "verification_requirements", "traceability",
     "verification_conditions", "system_visual"}

\* C2: an authenticated /combined request with a non-empty prompt is
\* answered, whatever combination of the hosted model, the database, the
\* PDF extraction and the diagram backend fails, by a response (not an
\* exception) that carries all five fields.
C2_FiveFieldsAlways ==
    DocumentsRequested
        => /\ ret.status = 200
           /\ ret.kind = "documents"
           /\ DOMAIN ret.body = FiveFields

\* a request in which every collaborator failed
C2_Witness ==
    /\ DocumentsRequested
    /\ call.env.db \in {"connfail", "queryfail"}
    /\ \A k \in Kinds : ~call.env.m[k].ok
    /\ call.env.pdf # NoPdf /\ call.env.pdf.bad > 0
    /\ ~call.env.render_ok
    /\ ret.status = 200 /\ ret.body.system_visual.none

\* a table name with a character outside [A-Za-z0-9_]
OutsideIdentifier(name) == \E i \in 1..Len(name) : name[i] \notin AsciiWordChars

\* C3: fetch_specific_table never reaches cursor.execute for a table name
\* that has a character outside [A-Za-z0-9_].
C3_NoQueryForBadName ==
    (call.fn = "fetch_specific_table" /\ OutsideIdentifier(call.table_name))
        => Calls("execute", "select") = {}

\* C4: what fetch_specific_table hands its caller for a malformed table name
\* differs from what it hands back after an upstream failure (no connection,
\* a failed query) and from what it hands back for an existing empty table.
C4_MalformedNameDistinct ==
    (call.fn = "fetch_specific_table" /\ OutsideIdentifier(call.table_name))
        => \A db2 \in DbModes, limit2 \in Limits :
             \A name2 \in {n \in TableNames : ~OutsideIdentifier(n)} :
                (db2 # "up" \/ name2 = EmptyTable)
                    => LET r2 == fetch_specific_table(db2, name2, limit2)
                       IN  [raised |-> r2.raised, value |-> r2.value] # ret

\* C5: fetch_specific_table returns at most `limit` rows, and returns the
\* empty sequence, without raising, when the database cannot be reached or
\* has no table of that name.
C5_FetchBounded ==
    call.fn = "fetch_specific_table"
        => /\ ~ret.raised
           /\ Len(ret.value) <= call.limit
           /\ (call.db \in {"noconfig", "connfail"}
                 \/ Strip(call.table_name) \notin DbTables) => ret.value = <<>>

\* the limit cut rows off: the table holds more rows than were asked for
C5_Witness ==
    /\ call.fn = "fetch_specific_table"
    /\ call.limit = DefaultLimit
    /\ Len(ret.value) = DefaultLimit
    /\ Len(TableRows(Strip(call.table_name))) > DefaultLimit

\* C6: over a sequence of requests on a session, the conversation log held
\* before a request is a prefix of the log held after it.
C6_LogAppendOnly == [][IsPrefix(cookie.log, cookie'.log)]_vars

\* a request appended its two turns to the two turns of an earlier request
C6_Witness ==
    /\ call.fn = "/combined" /\ ret.kind = "documents"
    /\ Len(call.session.log) = 2
    /\ Len(cookie.log) = 4
    /\ SubSeq(cookie.log, 1, 2) = call.session.log

\* C7: within one /combined request the hosted model is called at most once
\* for each document kind, so at most four times, also when a call failed.
C7_OneModelCallPerKind ==
    call.fn = "/combined"
        => /\ \A k \in Kinds : Cardinality(Calls("model", k)) <= 1
           /\ Cardinality({i \in 1..Len(trace) : trace[i].op = "model"}) <= 4

\* a request whose design call reached the hosted model and failed, and
\* whose three other calls were still made
C7_Witness ==
    /\ DocumentsRequested
    /\ ~call.env.m["design"].ok
    /\ \A k \in Kinds : Cardinality(Calls("model", k)) = 1

\* the single characters (everything else in a text is a template block)
Chars == {CodeOrder[i] : i \in 1..Len(CodeOrder)}

IsChar(c) == c \in Chars

\* the EnrichedText of the last generation call: the one its own call of
\* enhance_user_requirements produced, or for a function that never calls
\* it, whatever enhance_user_requirements may produce from the same text
EnrichedTexts ==
    IF UsesNlp(call.kind)
    THEN {IF call.impl = "api_integration"
          THEN enhance_user_requirements(call.text, call.doc, call.order).value
          ELSE Simple_enhance_user_requirements(call.text, call.doc).value}
    ELSE UNION {{enhance_user_requirements(call.text, d, o).value :
                    o \in Perms(key_phrases(d))} :
                d \in {x \in NlpDocs(call.text) : x.ok}}

PdfExcerpt(prompt) ==
    LET n == Len(PdfDataLabel)
        i == CHOOSE i \in 1..Len(prompt) :
                /\ SubSeq(prompt, i, i + n - 1) = PdfDataLabel
                /\ \A k \in 1..(i - 1) : SubSeq(prompt, k, k + n - 1) # PdfDataLabel
        j == CHOOSE j \in (i + n)..Len(prompt) :
                /\ ~IsChar(prompt[j])
                /\ \A k \in (i + n)..(j - 1) : IsChar(prompt[k])
    IN  SubSeq(prompt, i + n, j - 1)

\* C9: the PDF excerpt of the design prompt has at most 1000 characters and
\* that of the verification-requirements prompt at most 800.
C9_PdfExcerptTruncated ==
    (/\ call.fn = "generate" /\ ModelReached
     /\ call.impl = "api_integration" /\ UsesNlp(call.kind)
     /\ call.pdf # NoPdf)
        => Len(PdfExcerpt(SentPrompt))
             <= (IF call.kind = "design" THEN 1000 ELSE 800)

\* C10: for a non-empty requirement text, what enhance_user_requirements
\* returns starts with the text without its leading and trailing white space.
C10_StartsWithTrimmedText ==
    (call.fn = "enhance_user_requirements" /\ call.text # <<>> /\ ~ret.raised)
        => \E a \in 0..Len(call.text), b \in 0..Len(call.text) :
              /\ a <= b
              /\ \A k \in 1..a : call.text[k] \in Whitespace
              /\ \A k \in (b + 1)..Len(call.text) : call.text[k] \in Whitespace
              /\ a < b => (call.text[a + 1] \notin Whitespace
                             /\ call.text[b] \notin Whitespace)
              /\ a = b => \A k \in 1..Len(call.text) : call.text[k] \in Whitespace
              /\ IsPrefix(SubSeq(call.text, a + 1, b), ret.value)

\* a text with white space on both sides of its words was enhanced
C10_Witness ==
    /\ call.fn = "enhance_user_requirements" /\ ~ret.raised
    /\ call.impl = "api_integration"
    /\ call.text # <<>> /\ Head(call.text) \in Whitespace
    /\ call.text[Len(call.text)] \in Whitespace
    /\ Strip(call.text) # <<>>
    /\ key_phrases(call.doc) # {}

\* p is the end of s
IsSuffix(p, s) == Len(p) <= Len(s) /\ SubSeq(s, Len(s) - Len(p) + 1, Len(s)) = p

\* C11 as stated: what enhance_user_requirements returns ends with the
\* brevity note if and only if the text has fewer than twenty
\* whitespace-separated tokens.
C11_EndsWithNoteIffBrief ==
    (call.fn = "enhance_user_requirements" /\ ~ret.raised)
        => (IsSuffix(BrevityNote, ret.value) <=> WordCount(call.text) < 20)

\* the trimmed text, followed by the key-concepts line of some order of
\* the phrases when there is a phrase
EnhancedWithoutNote ==
    {Strip(call.text)
       \o (IF key_phrases(call.doc) # {}
           THEN KeyConceptsLabel \o Join(<<",", " ">>, o) ELSE <<>>) :
        o \in Perms(key_phrases(call.doc))}

\* C11 amended: the brevity note is appended, as the last part of the
\* result, if and only if the text has fewer than twenty tokens; for twenty
\* or more tokens nothing follows the trimmed text and its key-concepts line
\* (so the result ends with the note only if those already do).
C11_NoteAppendedIffBrief ==
    (call.fn = "enhance_user_requirements" /\ ~ret.raised)
        => IF WordCount(call.text) < 20
           THEN \E b \in EnhancedWithoutNote : ret.value = b \o BrevityNote
           ELSE ret.value \in EnhancedWithoutNote

\* a text of exactly twenty tokens was enhanced and got no note
C11_Witness ==
    /\ call.fn = "enhance_user_requirements" /\ ~ret.raised
    /\ call.text = TwentyWords
    /\ ~IsSuffix(BrevityNote, ret.value)

\* what the last call of enhance_user_requirements put between the trimmed
\* text and the brevity note
KeyConceptsLine ==
    LET rest == SubSeq(ret.value, Len(Strip(call.text)) + 1, Len(ret.value))
    IN  IF WordCount(call.text) < 20
        THEN SubSeq(rest, 1, Len(rest) - Len(BrevityNote))
        ELSE rest

\* C12: when there is a key phrase, the "Key concepts:" line that
\* enhance_user_requirements appends lists every distinct phrase once,
\* separated by commas, in sorted order; when there is none, no line is
\* appended.
C12_KeyConceptsSorted ==
    (call.fn = "enhance_user_requirements" /\ ~ret.raised)
        => KeyConceptsLine =
             (IF key_phrases(call.doc) = {} THEN <<>>
              ELSE KeyConceptsLabel \o Join(<<",", " ">>, Sorted(key_phrases(call.doc))))

\* C13: the sequence extract_important_phrases returns holds no phrase of
\* fewer than four characters and no phrase that is, up to case, one of
\* i, am, a, the, it, these, this, that.
C13_NoShortNoStopPhrase ==
    (call.fn = "extract_important_phrases" /\ ~ret.raised)
        => \A i \in 1..Len(ret.value) :
              /\ Len(ret.value[i]) >= 4
              /\ LowerText(ret.value[i]) \notin StopSet

\* nlp returned a stop word and a one-character number as entities, next
\* to a phrase that is kept
C13_Witness ==
    /\ call.fn = "extract_important_phrases" /\ ~ret.raised
    /\ \E e \in call.doc.ents : LowerText(e.text) \in StopSet /\ Len(e.text) >= 4
    /\ \E e \in call.doc.ents : Len(e.text) < 4
    /\ ret.value # <<>>

\* the phrase occurs in the text letter for letter
FoundVerbatim(text, phrase) == Contains(text, phrase)

\* where the first occurrence of a phrase that occurs in the text starts
FirstOccurrence(text, phrase) ==
    CHOOSE i \in 1..Len(text) :
        /\ SubSeq(text, i, i + Len(phrase) - 1) = phrase
        /\ \A k \in 1..(i - 1) : SubSeq(text, k, k + Len(phrase) - 1) # phrase

\* C14: of two phrases of the returned sequence that both occur verbatim in
\* the text, the one whose first occurrence starts earlier comes first.
C14_EarlierPhraseFirst ==
    (call.fn = "extract_important_phrases" /\ ~ret.raised)
        => \A i \in 1..Len(ret.value), j \in 1..Len(ret.value) :
              (/\ FoundVerbatim(call.text, ret.value[i])
               /\ FoundVerbatim(call.text, ret.value[j])
               /\ FirstOccurrence(call.text, ret.value[i])
                    < FirstOccurrence(call.text, ret.value[j]))
                 => i < j

\* the set iterated with a later phrase before an earlier one, and the
\* result has them the other way round
C14_Witness ==
    /\ call.fn = "extract_important_phrases" /\ ~ret.raised
    /\ \E i \in 1..Len(call.order), j \in 1..Len(call.order) :
          /\ i < j
          /\ FoundVerbatim(call.text, call.order[i])
          /\ FoundVerbatim(call.text, call.order[j])
          /\ FirstOccurrence(call.text, call.order[j])
               < FirstOccurrence(call.text, call.order[i])
    /\ Len(ret.value) = Len(call.order)

\* the graph the last call handed to the diagram backend
RenderedGraph == trace[CHOOSE i \in 1..Len(trace) : trace[i].op = "render"].text

GraphRendered == \E i \in 1..Len(trace) : trace[i].op = "render"

NodesOfShape(graph, shape) ==
    SelectSeq(graph.nodes, LAMBDA n : n.shape = shape)

\* the phrase sequence of the last call of generate_network_visualization
PhraseSequence ==
    extract_important_phrases(
        visualization_text(call.user_requirements, call.pdf), call.doc,
        call.order).value

\* C15: the graph of generate_network_visualization has one root node
\* labelled "System Requirement", one child node per phrase of the phrase
\* sequence in its order (one placeholder child for the empty sequence),
\* one edge from the root to each child, and the "PDF Context" note with a
\* dashed edge from the root exactly when a PDF is supplied whose extracted
\* text is not empty.
C15_GraphShape ==
    (call.fn = "generate_network_visualization" /\ GraphRendered)
        => LET g == RenderedGraph
               roots == NodesOfShape(g, "box")
               children == NodesOfShape(g, "ellipse")
               notes == NodesOfShape(g, "note")
               solid == SelectSeq(g.edges, LAMBDA e : e.style # "dashed")
               dashed == SelectSeq(g.edges, LAMBDA e : e.style = "dashed")
               with_note == call.pdf # NoPdf /\ extract_text_from_pdf(call.pdf) # <<>>
           IN  /\ Len(roots) = 1
               /\ roots[1].label = <<"System Requirement">>
               /\ Len(g.nodes) = Len(roots) + Len(children) + Len(notes)
               /\ Cardinality({g.nodes[i].id : i \in 1..Len(g.nodes)}) = Len(g.nodes)
               /\ IF PhraseSequence = <<>>
                  THEN /\ Len(children) = 1
                       /\ children[1].label = <<"No key requirements found.">>
                  ELSE /\ Len(children) = Len(PhraseSequence)
                       /\ \A i \in 1..Len(children) : children[i].label = PhraseSequence[i]
               /\ Len(solid) = Len(children)
               /\ \A i \in 1..Len(children) :
                     Cardinality({k \in 1..Len(solid) :
                         solid[k].from = roots[1].id /\ solid[k].to = children[i].id}) = 1
               /\ Len(notes) = (IF with_note THEN 1 ELSE 0)
               /\ Len(dashed) = (IF with_note THEN 1 ELSE 0)
               /\ with_note
                    => /\ notes[1].label = <<"PDF Context">>
                       /\ dashed[1].from = roots[1].id /\ dashed[1].to = notes[1].id

\* a diagram of two phrases or more with the note of a PDF that has text
C15_Witness ==
    /\ call.fn = "generate_network_visualization" /\ GraphRendered
    /\ Len(PhraseSequence) >= 2
    /\ call.pdf # NoPdf /\ extract_text_from_pdf(call.pdf) # <<>>
    /\ Len(RenderedGraph.nodes) = Len(PhraseSequence) + 2

\* something failed while the last diagram was produced: the NLP pipeline
\* in the phrase extraction, or the diagram backend
DiagramFailure == ~call.doc.ok \/ ~call.render_ok

\* C16 as stated: generate_network_visualization never raises, and after
\* any failure while the diagram is produced it returns the fixed
\* placeholder SVG.
C16_AnyFailurePlaceholder ==
    call.fn = "generate_network_visualization"
        => /\ ~ret.raised
           /\ DiagramFailure => ret.value = ErrorSvg

\* C16 amended: a failure of the diagram backend is caught and the fixed
\* placeholder SVG is returned; generate_network_visualization raises
\* exactly when the NLP pipeline raises in the phrase extraction; and
\* without a failure the result is the drawing, not the placeholder.
C16_RenderFailurePlaceholder ==
    call.fn = "generate_network_visualization"
        => /\ ret.raised <=> ~call.doc.ok
           /\ (call.doc.ok /\ ~call.render_ok) => ret.value = ErrorSvg
           /\ (call.doc.ok /\ call.render_ok) => ret.value # ErrorSvg

\* the backend failed on a graph with a phrase, and the placeholder came back
C16_Witness ==
    /\ call.fn = "generate_network_visualization"
    /\ call.doc.ok /\ ~call.render_ok
    /\ GraphRendered /\ PhraseSequence # <<>>
    /\ ~ret.raised /\ ret.value = ErrorSvg

\* the connections the last database call opened (odbc.connect returned)
\* and the connections it closed
ConnectionsOpened ==
    IF call.db \in {"queryfail", "up"} THEN Cardinality(Calls("connect", "")) ELSE 0

ConnectionsClosed == Cardinality(Calls("close", ""))

\* C17: every connection that list_all_tables, fetch_table_structure or
\* fetch_specific_table opened is closed when the call returns, after a
\* success, a query error or an invalid table name alike.
C17_ConnectionsClosed ==
    call.fn \in {"list_all_tables", "fetch_table_structure", "fetch_specific_table"}
        => ConnectionsClosed = ConnectionsOpened

ErrorWord == <<"E","r","r","o","r">>

\* the four document fields of a response
DocumentFields ==
    {"system_design", "verification_requirements", "traceability",
     "verification_conditions"}

\* C18: when API_KEY is absent, startup does not raise and prints only the
\* warning, and every later /combined request is answered (status 200) with
\* four documents that each start with "Error" and, unless the NLP pipeline
\* failed first, carry the message of the missing key; the hosted model is
\* not requested.  The four functions of api_integration_simple return an
\* error text for the same prompt as well.
C18_NoKeyErrorDocuments ==
    (DocumentsRequested /\ Falsy(call.env.api_key))
        => /\ ~startup_api_key(call.env.api_key).raised
           /\ startup_api_key(call.env.api_key).out = ApiKeyWarning
           /\ ret.status = 200 /\ ret.kind = "documents"
           /\ \A f \in DocumentFields :
                 /\ IsPrefix(ErrorWord, ret.body[f])
                 /\ call.env.doc.ok => Contains(ret.body[f], NoApiKeyMessage)
           /\ ~ModelReached
           /\ \A k \in Kinds :
                 LET r == Generate("api_integration_simple", k, Strip(call.prompt),
                                   NotADict, NoPdf, "noconfig", call.env.doc,
                                   Sorted(key_phrases(call.env.doc)), NoClient)
                 IN  ~r.raised /\ IsPrefix(ErrorWord, r.value)

\* a request served by a process started without API_KEY, whose NLP
\* pipeline, database and diagram backend all work
C18_Witness ==
    /\ DocumentsRequested
    /\ ~call.env.api_key.set
    /\ call.env.doc.ok /\ call.env.db = "up" /\ call.env.render_ok
    /\ ret.status = 200
    /\ Contains(ret.body.system_design, NoApiKeyMessage)
    /\ ~ret.body.system_visual.none

\* the source of the last load cannot be read as a PDF: no path is set, the
\* location yields nothing, or what it yields is no PDF
SourceFailure ==
    \/ Falsy(call.pdf_path)
    \/ ~call.store.found
    \/ call.store.content = CorruptPdf

\* the text of the pages before the first page that cannot be read
ReadablePart(pdf) ==
    LET n == IF pdf.bad \in 1..Len(pdf.pages) THEN pdf.bad - 1 ELSE Len(pdf.pages)
    IN  Concat(SubSeq(pdf.pages, 1, n))

IsCallEvent(e) == e.op = "call"

\* the call of the integration module during which step i of the last
\* request happened
CallOf(i) ==
    trace[CHOOSE j \in 1..i :
            /\ IsCallEvent(trace[j])
            /\ \A k \in (j + 1)..i : ~IsCallEvent(trace[k])].tag

CallOrder == <<"design", "verification", "traceability", "conditions", "visual">>

\* C20: within one /combined request the integration module is called five
\* times, in the order design, verification requirements, traceability,
\* verification conditions, diagram, whatever failed before; every request
\* to the hosted model is made during the call of its own kind, the
\* database is read during the design call and the diagram is rendered
\* during the last call.
C20_CallsInFixedOrder ==
    DocumentsRequested
        => /\ LET calls == SelectSeq(trace, IsCallEvent)
               IN  [i \in 1..Len(calls) |-> calls[i].tag] = CallOrder
           /\ \A i \in 1..Len(trace) :
                 /\ trace[i].op = "model" => CallOf(i) = trace[i].tag
                 /\ trace[i].op = "render" => CallOf(i) = "visual"
                 /\ trace[i].op \notin {"call", "model", "render"} => CallOf(i) = "design"

\* the database, every request to the hosted model and the diagram backend
\* failed, and all five calls were made and reached their collaborator
C20_Witness ==
    /\ DocumentsRequested
    /\ call.env.db = "queryfail" /\ ~call.env.render_ok
    /\ \A k \in Kinds : call.env.m[k].key /\ ~call.env.m[k].ok
    /\ Cardinality({i \in 1..Len(trace) : IsCallEvent(trace[i])}) = 5
    /\ \A k \in Kinds : Calls("model", k) # {}
    /\ GraphRendered

\* the prompt is empty or has white space only
BlankPrompt(prompt) == \A i \in 1..Len(prompt) : prompt[i] \in Whitespace

\* C21: a /combined request whose prompt is empty or only white space calls
\* no collaborator (hosted model, database, diagram backend, NLP) and leaves
\* the session, its conversation log included, as it was; the handler, which
\* runs for a signed-in session, answers "Please enter a prompt.".
C21_BlankPromptChangesNothing ==
    (call.fn = "/combined" /\ BlankPrompt(call.prompt))
        => /\ trace = <<>>
           /\ cookie = call.session
           /\ is_authenticated(call.session)
                 => /\ ret.status = 200 /\ ret.kind = "message"
                    /\ ret.body = [response |-> PleaseEnterPrompt]

\* a prompt of white space sent on a signed-in session that holds the two
\* turns of an earlier request
C21_Witness ==
    /\ call.fn = "/combined"
    /\ call.prompt # <<>> /\ BlankPrompt(call.prompt)
    /\ is_authenticated(call.session)
    /\ Len(call.session.log) = 2
    /\ ret.kind = "message"
    /\ cookie.log = call.session.log

\* the senders of a log alternate, starting with "User"
Alternates(log) ==
    \A i \in 1..Len(log) :
        log[i].sender = (IF i % 2 = 1 THEN "User" ELSE "Assistant")

\* C22: in every reachable state the conversation log of the session has
\* even length and alternates senders starting with "User"; a /combined
\* request with a non-empty prompt appends to the log it found exactly one
\* User turn with the trimmed prompt followed by one Assistant turn, also
\* when every generation failed.
C22_LogAlternates ==
    /\ Len(cookie.log) % 2 = 0
    /\ Alternates(cookie.log)
    /\ (call.fn = "/combined" /\ ret.kind = "documents")
          => LET before == conversation_of(call.session)
                 n == Len(before)
             IN  /\ Len(cookie.log) = n + 2
                 /\ SubSeq(cookie.log, 1, n) = before
                 /\ cookie.log[n + 1] = Turn("User", Strip(call.prompt))
                 /\ cookie.log[n + 2].sender = "Assistant"

\* the second request of a session in which every generation failed again
C22_Witness ==
    /\ call.fn = "/combined" /\ ret.kind = "documents"
    /\ call.env.db = "connfail" /\ ~call.env.doc.ok
    /\ \A k \in Kinds : ~call.env.m[k].ok
    /\ Len(cookie.log) = 4
    /\ IsPrefix(ErrorWord, ret.body.traceability)

\* C23: when /combined requests of one session overlap, no turn is lost:
\* every request that is answered with documents adds its two turns to the
\* log as the session holds it at that moment, so that after two overlapping
\* requests the log holds the turns of both.
C23_NoTurnLost ==
    [][(/\ \E r \in inflight : inflight' = inflight \ {r}
        /\ call'.fn = "/combined" /\ ret'.kind = "documents")
          => /\ IsPrefix(conversation_of(cookie), cookie'.log)
             /\ Len(cookie'.log) = Len(conversation_of(cookie)) + 2]_vars

ProtectedRoutes == {"/", "/combined", "/logout", "/whoami"}

\* C24: a request to /, /combined, /logout or /whoami whose session names
\* no user of the user store is not carried out: it is redirected to the
\* login view, calls no collaborator (so never the hosted model), and the
\* session stays signed out with the conversation log it had.
C24_ProtectedOnlyWhenSignedIn ==
    (call.fn \in ProtectedRoutes /\ call.session.user_id \notin USERS)
        => /\ ret.status = 302 /\ ret.kind = "redirect"
           /\ ret.body = NoBody
           /\ trace = <<>>
           /\ cookie.user_id \notin USERS
           /\ cookie.has_log = call.session.has_log
           /\ cookie.log = call.session.log

\* a prompt sent to /combined after the session that holds two turns was
\* signed out
C24_Witness ==
    /\ call.fn = "/combined"
    /\ call.session.user_id \notin USERS
    /\ ~BlankPrompt(call.prompt)
    /\ Len(call.session.log) = 2
    /\ ret.kind = "redirect"
    /\ Len(cookie.log) = 2

\* the last request to /login presented a stored username with the
\* password its hash was generated from
ValidCredentials ==
    /\ call.method = "POST"
    /\ call.username \in {"Bhargav", "Adi", "Dr.Wach"}
    /\ call.password = (CASE call.username = "Bhargav" -> "Hume2027!"
                          [] call.username = "Adi" -> "Hume2027!!"
                          [] call.username = "Dr.Wach" -> "Hume2027!!!")

\* C25: after a request to /login the session is signed in if and only if
\* the request was a POST with a username of the user store and the
\* password of that user, and then as that user; after a GET, an unknown
\* username or a wrong password it is signed out, also when it was signed
\* in before; the conversation log is not touched.
C25_LoginOnlyWithValidCredentials ==
    call.fn = "/login"
        => /\ (cookie.user_id \in USERS) <=> ValidCredentials
           /\ ValidCredentials => cookie.user_id = call.username
           /\ ~ValidCredentials => (cookie.user_id = None /\ ret.status \in {200, 401})
           /\ cookie.log = call.session.log

\* a signed-in session posted the name of a stored user with the password
\* of another stored user, and is signed out
C25_Witness ==
    /\ call.fn = "/login" /\ call.method = "POST"
    /\ call.session.user_id \in USERS
    /\ call.username \in USERS
    /\ call.password = "Hume2027!" /\ call.username = "Adi"
    /\ ret.status = 401
    /\ cookie.user_id = None

\* C26: extract_important_phrases is deterministic: for the same text and
\* the same spans of the NLP pipeline it returns the same sequence, whatever
\* the order in which the set of phrases is iterated, also for phrases that
\* share their first-occurrence index and for phrases not found verbatim.
C26_SameSpansSameSequence ==
    (call.fn = "extract_important_phrases" /\ ~ret.raised)
        => \A o \in Perms(filtered_phrases(call.doc)) :
              extract_important_phrases(call.text, call.doc, o).value = ret.value

====
